---- MODULE Spec2Model ----
(***************************************************************************)
(* A model of the smarta2a protocol engine: the handler registry, the      *)
(* state manager and its in-memory store, the unary tasks/send, tasks/get  *)
(* and tasks/cancel paths of the JSON-RPC request processor, the task      *)
(* builder, the streaming event normalizer with the per-chunk persistence  *)
(* of tasks/sendSubscribe, the delivery to the push notification URL and   *)
(* the webhook endpoint.                                                   *)
(*                                                                         *)
(* A stream suspends between chunks, so one action handles one chunk of    *)
(* the handler's output. A unary request is one action, except where the   *)
(* interleaving of requests is studied: there a tasks/send is two actions, *)
(* up to the await of its handler and from its return.                     *)
(***************************************************************************)
EXTENDS Integers, Sequences, FiniteSets, TLC

VARIABLES
    stateMgr,               \* whether the processor was built with a StateManager
    strategy,               \* StateManager.strategy: "append" or "rolling"
    store,                  \* InMemoryStateStore.states: task id -> StateData
    spc,                    \* position of the stream: "idle", "running", "done"
    sreq,                   \* the tasks/sendSubscribe request being served
    artifact_state,         \* _normalize_subscription_events: index -> {index, last_chunk}
    task,                   \* event_generator: the Task object the generator mutates
    task_stream_history,    \* event_generator: task_stream_history
    context_stream_history, \* event_generator: context_stream_history
    stream_metadata,        \* event_generator: stream_metadata
    frames,                 \* the frames handed to the transport, in order
    yielded,                \* the chunks the handler has yielded so far, in order
    raised,                 \* the message of the exception the handler raised, or <<>>
    resp,                   \* the response of the last unary request
    last,                   \* the last unary request, with what it computed
    sent,                   \* per task id, the outcomes of the tasks/send calls so far
    natsFailures,           \* how many publishes to the event sink have failed
    handlers,               \* HandlerRegistry._handlers: method -> handler
    subscriptions,          \* HandlerRegistry._subscriptions: method -> handler
    registered,             \* HandlerRegistry._registered
    lastReg,                \* the last register call and whether it raised
    webhooks,               \* how many webhook results have been handled
    inflight                \* per client, its tasks/send request in flight

vars == <<stateMgr, strategy, store, spc, sreq, artifact_state, task, task_stream_history,
          context_stream_history, stream_metadata, frames, yielded, raised,
          resp, last, sent, natsFailures, handlers, subscriptions, registered, lastReg,
          webhooks, inflight>>

registryVars == <<handlers, subscriptions, registered, lastReg>>

serverVars == <<stateMgr, strategy, store, spc, sreq, artifact_state, task,
                task_stream_history, context_stream_history, stream_metadata,
                frames, yielded, raised, resp, last, sent, natsFailures, webhooks,
                inflight>>

streamVars == <<spc, sreq, artifact_state, task, task_stream_history,
                context_stream_history, stream_metadata, frames, yielded, raised>>

unaryVars == <<resp, last, sent>>

configVars == <<stateMgr, strategy>>

(***************************************************************************)
(* Bounds of the model.                                                    *)
(***************************************************************************)
MaxChunks == 3      \* chunks a streaming handler yields before it ends or raises
MaxSends == 3       \* tasks/send requests handled in one behaviour
MaxNatsFailures == 1 \* publishes to the event sink that fail in one behaviour
MaxWebhooks == 2    \* webhook results handled in one behaviour
MaxHistoryLength == 3 \* the largest params.historyLength of a tasks/get

WindowSize == 2     \* window_size of the RollingWindowStrategy, when it is configured

TaskIds == {"t1", "t2"}
EnvelopeIds == {"t1", "r9"}
ArtifactIndices == {0, 1}

(***************************************************************************)
(* Python values.                                                          *)
(***************************************************************************)
\* An Optional[Dict]: None, or a dict held as a set of <<key, value>> pairs.
MdNone == [isNone |-> TRUE, kv |-> {}]

Md(kv) == [isNone |-> FALSE, kv |-> kv]

\* `m or {}`
OrEmpty(m) == IF m.isNone THEN {} ELSE m.kv

Keys(kv) == {p[1] : p \in kv}

\* `{**a, **b}`
DictMerge(a, b) == b \cup {p \in a : p[1] \notin Keys(b)}

PushNone == [url |-> "None"]

TextPart(t) == [type |-> "text", text |-> t]

FilePart(b) == [type |-> "file", text |-> b]

Message(role, parts) == [role |-> role, parts |-> parts]

(***************************************************************************)
(* HandlerRegistry                                                         *)
(***************************************************************************)
Methods == {"tasks/send", "tasks/sendSubscribe", "tasks/get", "tasks/cancel"}

\* A handler function; handlers of tasks/send and tasks/sendSubscribe carry
\* the forward_to_webhook flag.
Handler(name, forward_to_webhook) ==
    [name |-> name, forward_to_webhook |-> forward_to_webhook]

Handlers == {Handler("f1", FALSE), Handler("f2", TRUE)}

\* dict.get(method) when the method is not a key
NoHandler == Handler("None", FALSE)

DictPut(dict, key, value) ==
    [x \in (DOMAIN dict) \cup {key} |-> IF x = key THEN value ELSE dict[x]]

\* HandlerRegistry.get_handler
get_handler(method) ==
    IF method \in DOMAIN handlers THEN handlers[method] ELSE NoHandler

\* HandlerRegistry.get_subscription
get_subscription(method) ==
    IF method \in DOMAIN subscriptions THEN subscriptions[method] ELSE NoHandler

RegisterCall(method, func, subscription, did_raise) ==
    [method |-> method, func |-> func, subscription |-> subscription,
     raised |-> did_raise]

NoRegisterCall == RegisterCall("none", NoHandler, FALSE, FALSE)

\* A registry that installs whatever it is given.
RegisterOverwriting(method, func, subscription) ==
    /\ handlers' = IF subscription THEN handlers ELSE DictPut(handlers, method, func)
    /\ subscriptions' = IF subscription
                        THEN DictPut(subscriptions, method, func) ELSE subscriptions
    /\ registered' = registered \cup {method}
    /\ lastReg' = RegisterCall(method, func, subscription, FALSE)

\* HandlerRegistry.register
Register(method, func, subscription) ==
    IF method \in registered
    THEN /\ lastReg' = RegisterCall(method, func, subscription, TRUE)
         /\ UNCHANGED <<handlers, subscriptions, registered>>
    ELSE /\ handlers' = IF subscription THEN handlers ELSE DictPut(handlers, method, func)
         /\ subscriptions' = IF subscription
                             THEN DictPut(subscriptions, method, func) ELSE subscriptions
         /\ registered' = registered \cup {method}
         /\ lastReg' = RegisterCall(method, func, subscription, FALSE)

(***************************************************************************)
(* History strategies.                                                     *)
(***************************************************************************)
\* `seq[-n:]` for n >= 1
LastN(seq, n) ==
    IF Len(seq) <= n THEN seq ELSE SubSeq(seq, Len(seq) - n + 1, Len(seq))

AppendStrategy_update_history(existing_history, new_messages) ==
    existing_history \o new_messages

\* RollingWindowStrategy.__init__: whether it raises ValueError
RollingWindowStrategy_init_raises(window_size) == window_size < 1

\* A rolling window that keeps every message.
RollingWindowStrategyKeepingAll(existing_history, new_messages) ==
    existing_history \o new_messages

RollingWindowStrategy_update_history(existing_history, new_messages) ==
    LastN(existing_history \o new_messages, WindowSize)

update_history(existing_history, new_messages) ==
    IF strategy = "append"
    THEN AppendStrategy_update_history(existing_history, new_messages)
    ELSE RollingWindowStrategy_update_history(existing_history, new_messages)

(***************************************************************************)
(* The state store and the state manager.                                  *)
(***************************************************************************)
Task(id, state, history, artifacts, metadata) ==
    [id |-> id, status |-> state, history |-> history,
     artifacts |-> artifacts, metadata |-> metadata]

StateData(task_id, t, context_history, push_notification_config) ==
    [task_id |-> task_id, task |-> t, context_history |-> context_history,
     push_notification_config |-> push_notification_config]

\* A store that keeps one record for all task ids.
StorePutEverywhere(st, task_id, state_data) ==
    [x \in (DOMAIN st) \cup {task_id} |-> state_data]

\* InMemoryStateStore.update_state: self.states[task_id] = state_data
StorePut(st, task_id, state_data) ==
    [x \in (DOMAIN st) \cup {task_id} |-> IF x = task_id THEN state_data ELSE st[x]]

\* StateManager._initialize_empty_state
InitializeEmptyState(task_id, push_notification_config) ==
    StateData(task_id,
              Task(task_id, "working", <<>>, <<>>, Md({})),
              <<>>,
              push_notification_config)

\* StateManager._prepare_update_payload reads state.task.metadata.get(...):
\* it raises when the metadata is None.
PrepareUpdatePayloadRaises(state_data) == state_data.task.metadata.isNone

\* StateManager.update_state raises after the store was written when the
\* payload cannot be prepared or the publish to the event sink fails.
UpdateStateRaises(state_data, natsOk) ==
    PrepareUpdatePayloadRaises(state_data) \/ ~natsOk

\* A state manager that starts from an empty record on every call.
GetOrCreateStateAlwaysNew(st, task_id, message, metadata, push_notification_config) ==
    LET latest == InitializeEmptyState(task_id, push_notification_config)
        t == latest.task
    IN  [latest EXCEPT
            !.task = [t EXCEPT !.history = Append(t.history, message),
                               !.metadata = metadata],
            !.context_history = update_history(latest.context_history, <<message>>)]

\* A state manager that does not add the incoming message to the record.
GetOrCreateStateWithoutMessage(st, task_id, message, metadata, push_notification_config) ==
    LET latest == IF task_id \in DOMAIN st
                  THEN st[task_id]
                  ELSE InitializeEmptyState(task_id, push_notification_config)
    IN  [latest EXCEPT !.task = [latest.task EXCEPT !.metadata = metadata]]

\* StateManager.get_or_create_and_update_state, up to its update_state call:
\* the record it persists and returns.
GetOrCreateState(st, task_id, message, metadata, push_notification_config) ==
    LET latest == IF task_id \in DOMAIN st
                  THEN st[task_id]
                  ELSE InitializeEmptyState(task_id, push_notification_config)
        t == latest.task
    IN  [latest EXCEPT
            !.task = [t EXCEPT !.history = Append(t.history, message),
                               !.metadata = metadata],
            !.context_history = update_history(latest.context_history, <<message>>)]

(***************************************************************************)
(* What a streaming handler may yield.                                     *)
(***************************************************************************)
\* Content: a str, bytes, a Part, an Artifact, or a list of these.
Str(t) == [shape |-> "str", text |-> t, parts |-> <<>>]

Bytes(b) == [shape |-> "bytes", text |-> b, parts |-> <<>>]

PartContent(p) == [shape |-> "part", text |-> "", parts |-> <<p>>]

ArtifactContent(parts) == [shape |-> "artifact", text |-> "", parts |-> parts]

ListContent(elems) == [shape |-> "list", elems |-> elems]

\* A2AStatus(status, final): final may be left out.
A2AStatus(status, final) == [kind |-> "A2AStatus", status |-> status, final |-> final]

\* A2AStreamResponse(content, index, append, final)
A2AStreamResponse(content, index, append, final) ==
    [kind |-> "A2AStreamResponse", content |-> content, index |-> index,
     append |-> append, final |-> final]

\* A bare str, bytes, Part, Artifact or list.
RawContent(content) == [kind |-> "raw", content |-> content]

TaskStatusUpdateEvent(state, final) ==
    [kind |-> "TaskStatusUpdateEvent", state |-> state, final |-> final]

Artifact(parts, index, append, lastChunk) ==
    [parts |-> parts, index |-> index, append |-> append, lastChunk |-> lastChunk]

TaskArtifactUpdateEvent(artifact) ==
    [kind |-> "TaskArtifactUpdateEvent", artifact |-> artifact]

\* A SendTaskStreamingResponse, with the name of the error it carries.
SendTaskStreamingResponse(error) ==
    [kind |-> "SendTaskStreamingResponse", error |-> error]

\* A value of no recognized type, such as an int.
OtherChunk == [kind |-> "other"]

\* The defaults of A2AStreamResponse's index, append and final.
DefaultStreamResponse(content) == A2AStreamResponse(content, 0, FALSE, FALSE)

StatusChunks ==
    {A2AStatus("working", "absent"), A2AStatus("working", "true"),
     A2AStatus("completed", "absent"), A2AStatus("completed", "false")}

ContentChunks ==
    {A2AStreamResponse(Str("a"), 0, FALSE, FALSE),
     A2AStreamResponse(Str("a"), 0, FALSE, TRUE),
     A2AStreamResponse(Str("a"), 0, TRUE, FALSE),
     A2AStreamResponse(Str("c"), 1, FALSE, FALSE)}

RawChunks ==
    {RawContent(ListContent(<<Str("b"), ArtifactContent(<<TextPart("x")>>), Bytes("z")>>))}

EventChunks ==
    {TaskStatusUpdateEvent("completed", TRUE),
     TaskArtifactUpdateEvent(Artifact(<<FilePart("f")>>, 0, FALSE, FALSE))}

Chunks ==
    StatusChunks \cup ContentChunks \cup RawChunks \cup EventChunks
    \cup {OtherChunk}

(***************************************************************************)
(* RequestHandler._normalize_subscription_events                           *)
(***************************************************************************)
RECURSIVE ConcatAll(_)
ConcatAll(seqs) ==
    IF seqs = <<>> THEN <<>> ELSE Head(seqs) \o ConcatAll(Tail(seqs))

\* One element of a list content: a str is wrapped, a Part is kept, an
\* Artifact gives its parts, anything else is skipped.
ElemParts(elem) ==
    CASE elem.shape = "str" -> <<TextPart(elem.text)>>
      [] elem.shape = "part" -> elem.parts
      [] elem.shape = "artifact" -> elem.parts
      [] OTHER -> <<>>

ContentParts(content) ==
    CASE content.shape = "str" -> <<TextPart(content.text)>>
      [] content.shape = "bytes" -> <<FilePart(content.text)>>
      [] content.shape = "part" -> content.parts
      [] content.shape = "artifact" -> content.parts
      [] content.shape = "list" ->
            ConcatAll([k \in 1..Len(content.elems) |-> ElemParts(content.elems[k])])

\* final=item.final or (item.status.lower() == TaskState.COMPLETED)
StatusFinal(item) == item.final = "true" \/ item.status = "completed"

\* append=item.append or state["index"] == artifact_idx
ArtifactAppend(item, state) == item.append \/ state.index = item.index

\* A normalizer that forgets that an index was marked final.
ArtifactLastChunkNotSticky(item, state) == item.final

\* lastChunk=item.final or state["last_chunk"]
ArtifactLastChunk(item, state) == item.final \/ state.last_chunk

\* if item.final: state["last_chunk"] = True; state["index"] += 1
NextArtifactState(item, state) ==
    [index |-> state.index + 1, last_chunk |-> state.last_chunk \/ item.final]

\* if not isinstance(item, A2AStreamResponse): item = A2AStreamResponse(content=item)
StreamItem(chunk) ==
    IF chunk.kind = "raw" THEN DefaultStreamResponse(chunk.content) ELSE chunk

\* The event the normalizer yields for one chunk.
NormalizedEvent(chunk, astate) ==
    CASE chunk.kind = "SendTaskStreamingResponse" -> chunk
      [] chunk.kind = "A2AStatus" ->
            TaskStatusUpdateEvent(chunk.status, StatusFinal(chunk))
      [] chunk.kind \in {"A2AStreamResponse", "raw"} ->
            LET item == StreamItem(chunk)
                state == astate[item.index]
            IN  TaskArtifactUpdateEvent(
                    Artifact(ContentParts(item.content), item.index,
                             ArtifactAppend(item, state),
                             ArtifactLastChunk(item, state)))
      [] chunk.kind \in {"TaskStatusUpdateEvent", "TaskArtifactUpdateEvent"} -> chunk
      [] OTHER -> SendTaskStreamingResponse("InvalidParamsError")

\* The normalizer's artifact_state after one chunk.
NormalizedState(chunk, astate) ==
    IF chunk.kind \in {"A2AStreamResponse", "raw"}
    THEN LET item == StreamItem(chunk)
         IN  [astate EXCEPT ![item.index] = NextArtifactState(item, astate[item.index])]
    ELSE astate

\* artifact_state = defaultdict(lambda: {"index": 0, "last_chunk": False})
InitialArtifactState ==
    [i \in ArtifactIndices |-> [index |-> 0, last_chunk |-> FALSE]]

(***************************************************************************)
(* Exception messages, as sequences of characters.                         *)
(***************************************************************************)
TaskNotFoundMsg == <<"T", "a", "s", "k", " ", "N", "o", "t", " ", "F", "o", "u", "n", "d">>

FoundNotMsg == <<"f", "o", "u", "n", "d", " ", "n", "o", "t">>

ExceptionMessages == {TaskNotFoundMsg, FoundNotMsg}

NotFoundText == <<"n", "o", "t", " ", "f", "o", "u", "n", "d">>

\* str.lower(), on the letters the messages use
LowerChar(c) ==
    CASE c = "T" -> "t"
      [] c = "N" -> "n"
      [] c = "F" -> "f"
      [] OTHER -> c

Lower(str) == [k \in 1..Len(str) |-> LowerChar(str[k])]

\* `sub in str`
Contains(str, sub) ==
    \E k \in 1..(Len(str) - Len(sub) + 1) : SubSeq(str, k, k + Len(sub) - 1) = sub

(***************************************************************************)
(* RequestHandler.handle_subscribe_task and its event_generator.           *)
(***************************************************************************)
ResultFrame(item) == [kind |-> "result", result |-> item]

ErrorFrame(error) == [kind |-> "error", error |-> error]

\* An outer except clause that looks for "not found" without lowering the message.
StreamErrorCaseSensitive(msg) ==
    IF Contains(msg, NotFoundText) THEN "TaskNotFoundError" ELSE "InternalError"

\* The error of the generator's outer except clause.
StreamError(msg) ==
    IF Contains(Lower(msg), NotFoundText) THEN "TaskNotFoundError" ELSE "InternalError"

\* The agent message the generator builds from an artifact update.
AgentMessage(item) == Message("agent", item.artifact.parts)

\* A generator that leaves the status of its Task alone.
TaskAfterEventKeepingStatus(item) ==
    IF item.kind = "TaskArtifactUpdateEvent"
    THEN [task EXCEPT !.artifacts = Append(@, item.artifact),
                      !.metadata = Md(stream_metadata),
                      !.history = task_stream_history \o <<AgentMessage(item)>>]
    ELSE [task EXCEPT !.metadata = Md(stream_metadata)]

\* The generator's Task after it applied an event to it, before the persist.
TaskAfterEvent(item) ==
    IF item.kind = "TaskArtifactUpdateEvent"
    THEN [task EXCEPT !.artifacts = Append(@, item.artifact),
                      !.metadata = Md(stream_metadata),
                      !.history = task_stream_history \o <<AgentMessage(item)>>]
    ELSE [task EXCEPT !.status = item.state,
                      !.metadata = Md(stream_metadata)]

\* The context history the generator persists with an event.
ContextAfterEvent(item) ==
    IF item.kind = "TaskArtifactUpdateEvent"
    THEN update_history(context_stream_history, <<AgentMessage(item)>>)
    ELSE context_stream_history

\* A generator that persists the record it had before the event.
StreamStateDataStale(item) ==
    StateData(sreq.id, task, context_stream_history, PushNone)

\* The StateData the generator hands to update_state: it names no
\* push_notification_config.
StreamStateData(item) ==
    StateData(sreq.id, TaskAfterEvent(item), ContextAfterEvent(item), PushNone)

IsEvent(item) == item.kind \in {"TaskArtifactUpdateEvent", "TaskStatusUpdateEvent"}

\* Whether the generator's handling of an event raises inside its inner try.
EventRaises(item, natsOk) ==
    \/ ~IsEvent(item)
    \/ stateMgr /\ UpdateStateRaises(StreamStateData(item), natsOk)

\* A generator that accepts artifact updates only.
FrameOfArtifactsOnly(item, natsOk) ==
    IF item.kind # "TaskArtifactUpdateEvent" \/ EventRaises(item, natsOk)
    THEN ErrorFrame("InternalError") ELSE ResultFrame(item)

\* The frame the generator yields for one normalized event.
FrameOf(item, natsOk) ==
    IF EventRaises(item, natsOk) THEN ErrorFrame("InternalError") ELSE ResultFrame(item)

NoRequest == [method |-> "none", id |-> "none", task_id |-> "none"]

NatsOutcomes(needed) ==
    IF needed /\ natsFailures < MaxNatsFailures THEN {TRUE, FALSE} ELSE {TRUE}

UserMessages == {Message("user", <<TextPart("hi")>>)}

RequestMetadata == {MdNone, Md({<<"user", "test">>})}

\* handle_subscribe_task answers with an error, and no stream, when no
\* handler is registered for tasks/sendSubscribe.
StreamPosition ==
    IF get_subscription("tasks/sendSubscribe") = NoHandler THEN "refused" ELSE "running"

\* process_request, case "tasks/sendSubscribe", then handle_subscribe_task up
\* to the first step of the generator.
StartStream(id, message, metadata, natsOk) ==
    /\ spc = "idle"
    /\ sreq' = [id |-> id, message |-> message, metadata |-> metadata,
                before |-> IF id \in DOMAIN store THEN store[id].task.history ELSE <<>>]
    /\ natsFailures' = IF natsOk THEN natsFailures ELSE natsFailures + 1
    /\ artifact_state' = InitialArtifactState
    /\ UNCHANGED <<stateMgr, strategy, frames, yielded, raised, resp, last, sent>>
    /\ UNCHANGED <<registryVars, webhooks, inflight>>
    /\ IF stateMgr
       THEN LET state_data == GetOrCreateState(store, id, message, metadata, PushNone)
            IN  /\ store' = StorePut(store, id, state_data)
                /\ spc' = IF UpdateStateRaises(state_data, natsOk)
                          THEN "crashed"
                          ELSE StreamPosition
                /\ task' = state_data.task
                /\ task_stream_history' = state_data.task.history
                /\ context_stream_history' = state_data.context_history
                /\ stream_metadata' = OrEmpty(state_data.task.metadata)
       ELSE /\ store' = store
            /\ spc' = StreamPosition
            /\ task' = Task(id, "working", <<message>>, <<>>, Md(OrEmpty(metadata)))
            /\ task_stream_history' = <<message>>
            /\ context_stream_history' = <<>>
            /\ stream_metadata' = OrEmpty(metadata)

\* One turn of the generator's loop: the handler yields a chunk, the
\* normalizer turns it into an event, the generator applies and persists it
\* and yields the frame.
StreamChunk(chunk, natsOk) ==
    /\ spc = "running"
    /\ Len(yielded) < MaxChunks
    /\ LET item == NormalizedEvent(chunk, artifact_state)
           fails == EventRaises(item, natsOk)
       IN  /\ artifact_state' = NormalizedState(chunk, artifact_state)
           /\ yielded' = Append(yielded, chunk)
           /\ frames' = Append(frames, FrameOf(item, natsOk))
           /\ natsFailures' = IF natsOk THEN natsFailures ELSE natsFailures + 1
           /\ task' = IF IsEvent(item) THEN TaskAfterEvent(item) ELSE task
           /\ store' = IF IsEvent(item) /\ stateMgr
                       THEN StorePut(store, sreq.id, StreamStateData(item))
                       ELSE store
           /\ task_stream_history' =
                 IF ~fails /\ item.kind = "TaskArtifactUpdateEvent"
                 THEN task_stream_history \o <<AgentMessage(item)>>
                 ELSE task_stream_history
           /\ context_stream_history' =
                 IF ~fails /\ item.kind = "TaskArtifactUpdateEvent" /\ stateMgr
                 THEN ContextAfterEvent(item)
                 ELSE context_stream_history
    /\ UNCHANGED <<stateMgr, strategy, spc, sreq, stream_metadata, raised,
                   resp, last, sent>>
    /\ UNCHANGED <<registryVars, webhooks, inflight>>

\* The handler raises instead of yielding: the generator's outer except
\* clause yields one error frame and the generator returns.
StreamRaise(msg) ==
    /\ spc = "running"
    /\ frames' = Append(frames, ErrorFrame(StreamError(msg)))
    /\ raised' = [did |-> TRUE, msg |-> msg]
    /\ spc' = "done"
    /\ UNCHANGED <<stateMgr, strategy, store, sreq, artifact_state, task,
                   task_stream_history, context_stream_history, stream_metadata,
                   yielded, resp, last, sent, natsFailures>>
    /\ UNCHANGED <<registryVars, webhooks, inflight>>

\* The handler's output ends: the generator returns.
StreamEnd ==
    /\ spc = "running"
    /\ spc' = "done"
    /\ UNCHANGED <<stateMgr, strategy, store, sreq, artifact_state, task,
                   task_stream_history, context_stream_history, stream_metadata,
                   frames, yielded, raised, resp, last, sent, natsFailures>>
    /\ UNCHANGED <<registryVars, webhooks, inflight>>

NoTask == Task("none", "none", <<>>, <<>>, MdNone)

\* The registry of an application that registered a handler for every method
\* before the server started, those of tasks/send and tasks/sendSubscribe
\* flagged forward_to_webhook.
AppHandlers ==
    [m \in {"tasks/send", "tasks/get", "tasks/cancel"} |->
        IF m = "tasks/send" THEN Handler("f2", TRUE) ELSE Handler("f1", FALSE)]

AppSubscriptions == [m \in {"tasks/sendSubscribe"} |-> Handler("f2", TRUE)]

NoResponse == [kind |-> "none"]

\* The clients whose tasks/send requests the server handles concurrently
Clients == {"c1", "c2"}

\* A client that has sent no request
NoSend == [pc |-> "idle"]

Init ==
    /\ stateMgr \in BOOLEAN
    /\ strategy \in IF stateMgr THEN {"append", "rolling"} ELSE {"append"}
    /\ store = <<>>
    /\ spc = "idle"
    /\ sreq = NoRequest
    /\ artifact_state = InitialArtifactState
    /\ task = NoTask
    /\ task_stream_history = <<>>
    /\ context_stream_history = <<>>
    /\ stream_metadata = {}
    /\ frames = <<>>
    /\ yielded = <<>>
    /\ raised = [did |-> FALSE, msg |-> <<>>]
    /\ resp = NoResponse
    /\ last = NoRequest
    /\ sent = [t \in TaskIds |-> [n |-> 0, clean |-> TRUE]]
    /\ natsFailures = 0
    /\ \/ handlers = <<>> /\ subscriptions = <<>> /\ registered = {}
       \/ /\ handlers = AppHandlers
          /\ subscriptions = AppSubscriptions
          /\ registered = Methods
    /\ lastReg = NoRegisterCall
    /\ webhooks = 0
    /\ inflight = [client \in Clients |-> NoSend]

\* A server whose state manager, if it has one, appends to the context history.
InitStream == Init /\ strategy = "append"

NextStream ==
    \/ \E message \in UserMessages, metadata \in RequestMetadata :
         \E natsOk \in NatsOutcomes(stateMgr) :
            StartStream("t1", message, metadata, natsOk)
    \/ \E chunk \in Chunks :
         \E natsOk \in NatsOutcomes(stateMgr /\ IsEvent(NormalizedEvent(chunk, artifact_state))) :
            StreamChunk(chunk, natsOk)
    \/ \E msg \in ExceptionMessages : StreamRaise(msg)
    \/ StreamEnd

SpecStream == InitStream /\ [][NextStream]_vars

(***************************************************************************)
(* TaskBuilder                                                             *)
(***************************************************************************)
\* What a unary handler may return or raise.
LooseContent(content) == [kind |-> "content", content |-> content]

A2AResponse(status, content) ==
    [kind |-> "A2AResponse", status |-> status, content |-> content]

\* raise error(message): "Exception" stands for any exception that is no
\* JSONRPCError, every other name for the JSONRPCError of that name.
RaiseWith(error, message) == [kind |-> "raise", error |-> error, message |-> message]

Raise(error) == RaiseWith(error, "failed")

NoResult == [kind |-> "none"]

\* A handler that returns a Task object
TaskResult(t) == [kind |-> "Task", task |-> t]

\* Artifact(parts=...) with the defaults of its other fields
BuilderArtifact(parts) == Artifact(parts, 0, FALSE, FALSE)

\* TaskBuilder._create_part
CreatePart(item) ==
    CASE item.shape = "part" -> item.parts[1]
      [] OTHER -> TextPart(item.text)

\* TaskBuilder._parts_from_mixed
PartsFromMixed(items) ==
    ConcatAll([k \in 1..Len(items) |->
                  IF items[k].shape = "artifact"
                  THEN items[k].parts
                  ELSE <<CreatePart(items[k])>>])

\* TaskBuilder._normalize_content
NormalizeContent(content) ==
    CASE content.shape = "artifact" -> <<BuilderArtifact(content.parts)>>
      [] content.shape = "list" ->
            IF \A k \in 1..Len(content.elems) : content.elems[k].shape = "artifact"
            THEN [k \in 1..Len(content.elems) |-> BuilderArtifact(content.elems[k].parts)]
            ELSE <<BuilderArtifact(PartsFromMixed(content.elems))>>
      [] content.shape = "str" -> <<BuilderArtifact(<<TextPart(content.text)>>)>>
      [] content.shape = "part" -> <<BuilderArtifact(content.parts)>>
      [] OTHER -> <<BuilderArtifact(<<TextPart(content.text)>>)>>

\* TaskBuilder.build, for a Task, for an A2AResponse and for loose content
Build(raw_result, task_id, metadata, history, default_status) ==
    IF raw_result.kind = "Task"
    THEN [raw_result.task EXCEPT
            !.history = history \o raw_result.task.history,
            !.metadata = IF OrEmpty(raw_result.task.metadata) # {}
                         THEN raw_result.task.metadata
                         ELSE Md(metadata)]
    ELSE IF raw_result.kind = "A2AResponse"
    THEN Task(task_id, raw_result.status, history,
              NormalizeContent(raw_result.content), Md(metadata))
    ELSE Task(task_id, default_status, history,
              NormalizeContent(raw_result.content), Md(metadata))

(***************************************************************************)
(* JSONRPCRequestProcessor.process_request and RequestHandler, unary.      *)
(***************************************************************************)
ResultResponse(id, result) == [kind |-> "result", id |-> id, result |-> result]

\* A response with error=error, whose data is data
ErrorResponseWithData(id, error, data) ==
    [kind |-> "error", id |-> id, error |-> error, data |-> data]

ErrorResponse(id, error) == ErrorResponseWithData(id, error, "None")

\* An exception no handler caught: the request ends without a response.
Crash == [kind |-> "crash"]

\* The agent messages handle_send_task adds for the built task.
AgentMessages(t) ==
    IF t.artifacts # <<>>
    THEN <<Message("agent",
                   ConcatAll([k \in 1..Len(t.artifacts) |-> t.artifacts[k].parts]))>>
    ELSE <<>>

\* A handle_send_task that returns the history it was given.
SendTaskResultWithoutAgent(raw_result, task_id, metadata, task_history) ==
    Build(raw_result, task_id, metadata, task_history, "completed")

\* handle_send_task: the task it builds and returns. history and metadata are
\* those of the state data, or of the request when there is none.
SendTaskResult(raw_result, task_id, metadata, task_history) ==
    LET built == Build(raw_result, task_id, metadata, task_history, "completed")
    IN  [built EXCEPT !.history = task_history \o AgentMessages(built)]

\* handle_send_task: the error of its except clause
HandlerError(raw_result) ==
    IF raw_result.error = "Exception" THEN "InternalError" ELSE raw_result.error

\* A handler whose except clause answers InternalError without data.
HandlerErrorResponseWithoutData(id, raw_result) ==
    ErrorResponse(id, HandlerError(raw_result))

\* The response of the except clause of a unary handler: the JSONRPCError
\* that was raised, or InternalError(data=str(e)).
HandlerErrorResponse(id, raw_result) ==
    IF raw_result.error = "Exception"
    THEN ErrorResponseWithData(id, "InternalError", raw_result.message)
    ELSE ErrorResponse(id, raw_result.error)

OneTextArtifact(raw_result) == raw_result = LooseContent(Str("ok"))

HandlerResults ==
    {LooseContent(Str("ok")),
     LooseContent(ListContent(<<>>)),
     A2AResponse("input-required", Str("more?")),
     Raise("Exception")}

\* request.params.pushNotification, or the push_notification_config of a record
PushConfig(url) == [url |-> url]

PushConfigs == {PushNone, PushConfig("http://hook")}

\* `a or b` on two Optional[PushNotificationConfig]
PushOr(a, b) == IF a # PushNone THEN a ELSE b

NoStateData == StateData("none", NoTask, <<>>, PushNone)

\* A2AClient.send_to_webhook: one POST of the task to the URL, which fails or not
Delivery(url, task_id, t, ok) == [url |-> url, id |-> task_id, task |-> t, ok |-> ok]

\* What tasks/send records for the properties: the request, whether the
\* task id had a record, the record get_or_create_and_update_state persisted
\* and handed on, what the handler returns when it is called and whether it
\* was, the outcomes of the publishes and the deliveries attempted.
SendRecord(id, task_id, message, metadata, push, raw_result, natsOk1, natsOk2, outcome) ==
    [method |-> "tasks/send", id |-> id, task_id |-> task_id, message |-> message,
     metadata |-> metadata, pushNotification |-> push,
     fresh |-> task_id \notin DOMAIN store,
     raw_result |-> raw_result, called |-> outcome.called,
     handed |-> outcome.handed,
     natsOk1 |-> natsOk1, natsOk2 |-> natsOk2,
     deliveries |-> outcome.deliveries]

SentAfter(task_id, raw_result, called) ==
    [sent EXCEPT ![task_id] = [n |-> @.n + 1,
                               clean |-> @.clean /\ called /\ OneTextArtifact(raw_result)]]

\* What a tasks/send did: the store and the response it leaves, whether the
\* handler was called, the record handed to it, whether a second update_state
\* was made, and the deliveries attempted.
SendOutcome(st, response, called, handed, second, deliveries) ==
    [store |-> st, resp |-> response, called |-> called, handed |-> handed,
     second |-> second, deliveries |-> deliveries]

\* A delivery that does not look at the handler's forward_to_webhook flag.
SendDeliveriesIgnoringFlag(push_notification_config, handler, task_id, result, delivered) ==
    IF push_notification_config # PushNone
    THEN <<Delivery(push_notification_config.url, task_id, result, delivered)>>
    ELSE <<>>

\* handle_send_task: the delivery to the push notification URL
SendDeliveries(push_notification_config, handler, task_id, result, delivered) ==
    IF push_notification_config # PushNone /\ handler.forward_to_webhook
    THEN <<Delivery(push_notification_config.url, task_id, result, delivered)>>
    ELSE <<>>

\* A tasks/send that adds the artifacts it built to those of the record.
SendTaskUpdateAccumulating(state_data, task_id, push, raw_result) ==
    LET result == SendTaskResult(raw_result, task_id, OrEmpty(state_data.task.metadata),
                                 state_data.task.history)
        context_history == update_history(state_data.context_history, AgentMessages(result))
    IN  StateData(task_id,
                  [result EXCEPT !.artifacts = state_data.task.artifacts \o @],
                  context_history,
                  PushOr(push, state_data.push_notification_config))

\* handle_send_task with a state manager: the record it hands to update_state
\* once the handler returned. history, context history, metadata and push
\* config are those of the record get_or_create_and_update_state handed on.
SendTaskUpdate(state_data, task_id, push, raw_result) ==
    LET result == SendTaskResult(raw_result, task_id, OrEmpty(state_data.task.metadata),
                                 state_data.task.history)
        context_history == update_history(state_data.context_history, AgentMessages(result))
        push_notification_config == PushOr(push, state_data.push_notification_config)
    IN  StateData(task_id, result, context_history,
                  PushOr(push_notification_config, state_data.push_notification_config))

\* A tasks/send that puts the stored record back when its handler raises.
SendTaskWithStateRollingBack(id, task_id, message, metadata, push, raw_result, natsOk1, natsOk2, delivered) ==
    LET handler == get_handler("tasks/send")
        state_data == GetOrCreateState(store, task_id, message, metadata, push)
        store1 == StorePut(store, task_id, state_data)
        updated == SendTaskUpdate(state_data, task_id, push, raw_result)
        result == updated.task
        push_notification_config == PushOr(push, state_data.push_notification_config)
    IN  IF UpdateStateRaises(state_data, natsOk1)
        THEN SendOutcome(store1, Crash, FALSE, state_data, FALSE, <<>>)
        ELSE IF handler = NoHandler
        THEN SendOutcome(store1, ErrorResponse(id, "MethodNotFoundError"),
                         FALSE, state_data, FALSE, <<>>)
        ELSE IF raw_result.kind = "raise"
        THEN SendOutcome(store, HandlerErrorResponse(id, raw_result),
                         TRUE, state_data, FALSE, <<>>)
        ELSE IF UpdateStateRaises(updated, natsOk2)
        THEN SendOutcome(StorePut(store1, task_id, updated),
                         ErrorResponse(id, "InternalError"),
                         TRUE, state_data, TRUE, <<>>)
        ELSE SendOutcome(StorePut(store1, task_id, updated),
                         ResultResponse(id, result),
                         TRUE, state_data, TRUE,
                         SendDeliveries(push_notification_config, handler, task_id,
                                        result, delivered))

\* process_request, case "tasks/send", with a state manager.
SendTaskWithState(id, task_id, message, metadata, push, raw_result, natsOk1, natsOk2, delivered) ==
    LET handler == get_handler("tasks/send")
        state_data == GetOrCreateState(store, task_id, message, metadata, push)
        store1 == StorePut(store, task_id, state_data)
        updated == SendTaskUpdate(state_data, task_id, push, raw_result)
        result == updated.task
        push_notification_config == PushOr(push, state_data.push_notification_config)
    IN  IF UpdateStateRaises(state_data, natsOk1)
        THEN SendOutcome(store1, Crash, FALSE, state_data, FALSE, <<>>)
        ELSE IF handler = NoHandler
        THEN SendOutcome(store1, ErrorResponse(id, "MethodNotFoundError"),
                         FALSE, state_data, FALSE, <<>>)
        ELSE IF raw_result.kind = "raise"
        THEN SendOutcome(store1, HandlerErrorResponse(id, raw_result),
                         TRUE, state_data, FALSE, <<>>)
        ELSE IF UpdateStateRaises(updated, natsOk2)
        THEN SendOutcome(StorePut(store1, task_id, updated),
                         ErrorResponse(id, "InternalError"),
                         TRUE, state_data, TRUE, <<>>)
        ELSE SendOutcome(StorePut(store1, task_id, updated),
                         ResultResponse(id, result),
                         TRUE, state_data, TRUE,
                         SendDeliveries(push_notification_config, handler, task_id,
                                        result, delivered))

\* process_request, case "tasks/send", without a state manager.
SendTaskWithoutState(id, task_id, message, metadata, push, raw_result, delivered) ==
    LET handler == get_handler("tasks/send")
        result == SendTaskResult(raw_result, task_id, OrEmpty(metadata), <<message>>)
    IN  IF handler = NoHandler
        THEN SendOutcome(store, ErrorResponse(id, "MethodNotFoundError"),
                         FALSE, NoStateData, FALSE, <<>>)
        ELSE IF raw_result.kind = "raise"
        THEN SendOutcome(store, HandlerErrorResponse(id, raw_result),
                         TRUE, NoStateData, FALSE, <<>>)
        ELSE SendOutcome(store, ResultResponse(id, result), TRUE, NoStateData, FALSE,
                         SendDeliveries(push, handler, task_id, result, delivered))

RECURSIVE TotalSent(_)
TotalSent(ids) ==
    IF ids = {} THEN 0
    ELSE LET t == CHOOSE x \in ids : TRUE IN sent[t].n + TotalSent(ids \ {t})

\* One tasks/send request. The outcomes of the publishes and of the delivery
\* are inputs; an outcome is varied only when the step it belongs to is made.
SendTask(id, task_id, message, metadata, push, raw_result, natsOk1, natsOk2, delivered) ==
    LET outcome == IF stateMgr
                   THEN SendTaskWithState(id, task_id, message, metadata, push,
                                          raw_result, natsOk1, natsOk2, delivered)
                   ELSE SendTaskWithoutState(id, task_id, message, metadata, push,
                                             raw_result, delivered)
    IN  /\ TotalSent(TaskIds) < MaxSends
        /\ ~natsOk1 => stateMgr
        /\ ~natsOk2 => outcome.second
        /\ ~delivered => outcome.deliveries # <<>>
        /\ store' = outcome.store
        /\ resp' = outcome.resp
        /\ last' = SendRecord(id, task_id, message, metadata, push, raw_result,
                              natsOk1, natsOk2, outcome)
        /\ sent' = SentAfter(task_id, raw_result, outcome.called)
        /\ natsFailures' = natsFailures + (IF natsOk1 THEN 0 ELSE 1)
                                        + (IF natsOk2 THEN 0 ELSE 1)
        /\ natsFailures' <= MaxNatsFailures
        /\ UNCHANGED configVars
        /\ UNCHANGED streamVars
        /\ UNCHANGED <<registryVars, webhooks, inflight>>

\* What tasks/get records for the properties: the request and, when the
\* request before it was a tasks/send on the same task id that returned a
\* Task, that Task.
GetRecord(id, task_id, historyLength, raw_result) ==
    [method |-> "tasks/get", id |-> id, task_id |-> task_id,
     historyLength |-> historyLength, raw_result |-> raw_result,
     called |-> raw_result # NoResult,
     follows |-> IF /\ last.method = "tasks/send"
                    /\ last.task_id = task_id
                    /\ resp.kind = "result"
                 THEN resp
                 ELSE [kind |-> "none"]]

\* process_request, case "tasks/get", with a state manager: the record is
\* looked up under get_task_request.id.
GetTaskWithState(id, task_id) ==
    resp' = IF id \in DOMAIN store
            THEN ResultResponse(id, store[id].task)
            ELSE ErrorResponse(id, "TaskNotFoundError")

\* params.historyLength when the request has none
NoHistoryLength == -1

\* task.history[-historyLength:]
LastEntries(history, historyLength) ==
    SubSeq(history, Len(history) - historyLength + 1, Len(history))

\* RequestHandler._finalize_task_response
FinalizeTaskResponse(id, task_id, historyLength, t) ==
    IF t.id # task_id
    THEN ErrorResponse(id, "InvalidParamsError")
    ELSE IF historyLength \notin {NoHistoryLength, 0} /\ t.history # <<>>
    THEN ResultResponse(id, [t EXCEPT !.history =
                                IF historyLength >= Len(t.history) THEN t.history
                                ELSE LastEntries(t.history, historyLength)])
    ELSE ResultResponse(id, t)

\* The metadata handle_get_task and handle_cancel_task pass to the builder:
\* getattr(raw_result, "metadata", {}) or {}
ResultMetadata(raw_result) ==
    IF raw_result.kind = "Task" THEN OrEmpty(raw_result.task.metadata) ELSE {}

\* handle_get_task and _finalize_task_response, without a state manager
GetTaskWithoutState(id, task_id, historyLength, raw_result) ==
    resp' = IF get_handler("tasks/get") = NoHandler
            THEN ErrorResponse(id, "MethodNotFoundError")
            ELSE IF raw_result.kind = "raise"
            THEN HandlerErrorResponse(id, raw_result)
            ELSE FinalizeTaskResponse(id, task_id, historyLength,
                                      Build(raw_result, task_id, ResultMetadata(raw_result),
                                            <<>>, "completed"))

\* One tasks/get request. raw_result is what the handler returns when it is
\* called, NoResult when it is not.
GetTask(id, task_id, historyLength, raw_result) ==
    /\ IF stateMgr
       THEN raw_result = NoResult /\ GetTaskWithState(id, task_id)
       ELSE /\ (raw_result = NoResult) <=> (get_handler("tasks/get") = NoHandler)
            /\ GetTaskWithoutState(id, task_id, historyLength, raw_result)
    /\ last' = GetRecord(id, task_id, historyLength, raw_result)
    /\ UNCHANGED <<store, sent, natsFailures>>
    /\ UNCHANGED configVars
    /\ UNCHANGED streamVars
    /\ UNCHANGED <<registryVars, webhooks, inflight>>

TaskStates == {"submitted", "working", "input-required", "completed", "canceled", "failed"}

\* What a tasks/cancel handler may return or raise.
CancelResults ==
    {A2AStatus(state, "absent") : state \in TaskStates}
    \cup {LooseContent(Str("ok")), A2AResponse("input-required", Str("more?")),
          Raise("Exception")}

\* TaskBuilder.normalize_from_status
NormalizeFromStatus(status, task_id, metadata) ==
    Task(task_id, status, <<>>, <<>>, Md(metadata))

\* A cancel that accepts whatever state the handler's output has.
FinalizeCancelResponseAnyState(id, task_id, t) == ResultResponse(id, t)

\* RequestHandler._finalize_cancel_response
FinalizeCancelResponse(id, task_id, t) ==
    IF t.id # task_id
    THEN ErrorResponse(id, "InvalidParamsError")
    ELSE IF t.status \notin {"canceled", "completed"}
    THEN ErrorResponse(id, "TaskNotCancelableError")
    ELSE ResultResponse(id, t)

\* RequestHandler.handle_cancel_task, once the handler was found
CancelTaskWithoutState(id, task_id, raw_result) ==
    IF raw_result.kind = "raise"
    THEN HandlerErrorResponse(id, raw_result)
    ELSE IF raw_result.kind = "A2AStatus"
    THEN FinalizeCancelResponse(id, task_id,
                                NormalizeFromStatus(raw_result.status, task_id, {}))
    ELSE FinalizeCancelResponse(id, task_id,
                                Build(raw_result, task_id, ResultMetadata(raw_result),
                                      <<>>, "canceled"))

\* process_request, case "tasks/cancel", with a state manager: the record is
\* looked up under cancel_task_request.id, and for a record that is found
\* TaskState.CANCELLED, which TaskState does not have, raises before the
\* status is assigned.
CancelTaskWithState(id, task_id) ==
    IF id \in DOMAIN store THEN Crash ELSE ErrorResponse(id, "TaskNotFoundError")

\* What tasks/cancel records for the properties: the request, what the
\* handler returns, whether it was called, and how many frames the stream had
\* emitted when the request was handled.
CancelRecord(id, task_id, raw_result, called) ==
    [method |-> "tasks/cancel", id |-> id, task_id |-> task_id,
     raw_result |-> raw_result, called |-> called, emitted |-> Len(frames)]

\* A tasks/cancel that ends the stream in flight for its task id and empties
\* the artifacts of the record.
CancelTaskStoppingStream(id, task_id, raw_result) ==
    LET called == ~stateMgr /\ get_handler("tasks/cancel") # NoHandler
        t == store[task_id].task
    IN  /\ (raw_result = NoResult) <=> ~called
        /\ resp' = IF stateMgr THEN CancelTaskWithState(id, task_id)
                   ELSE IF ~called THEN ErrorResponse(id, "MethodNotFoundError")
                   ELSE CancelTaskWithoutState(id, task_id, raw_result)
        /\ last' = CancelRecord(id, task_id, raw_result, called)
        /\ spc' = IF spc = "running" /\ sreq.id = task_id THEN "done" ELSE spc
        /\ store' = IF task_id \in DOMAIN store
                    THEN [store EXCEPT ![task_id].task.artifacts = <<>>]
                    ELSE store
        /\ UNCHANGED <<sent, natsFailures>>
        /\ UNCHANGED configVars
        /\ UNCHANGED <<sreq, artifact_state, task, task_stream_history,
                       context_stream_history, stream_metadata, frames, yielded, raised>>
        /\ UNCHANGED <<registryVars, webhooks, inflight>>

\* One tasks/cancel request. raw_result is what the handler returns when it
\* is called, NoResult when it is not.
CancelTask(id, task_id, raw_result) ==
    LET called == ~stateMgr /\ get_handler("tasks/cancel") # NoHandler
    IN  /\ (raw_result = NoResult) <=> ~called
        /\ resp' = IF stateMgr THEN CancelTaskWithState(id, task_id)
                   ELSE IF ~called THEN ErrorResponse(id, "MethodNotFoundError")
                   ELSE CancelTaskWithoutState(id, task_id, raw_result)
        /\ last' = CancelRecord(id, task_id, raw_result, called)
        /\ UNCHANGED <<store, sent, natsFailures>>
        /\ UNCHANGED configVars
        /\ UNCHANGED streamVars
        /\ UNCHANGED <<registryVars, webhooks, inflight>>

\* TaskPushNotificationConfig(id, pushNotificationConfig): the params of
\* tasks/pushNotification/set and the result of both push notification methods
TaskPushNotificationConfig(task_id, config) ==
    [id |-> task_id, pushNotificationConfig |-> config]

\* A handler that returns None
NoneResult == [kind |-> "None"]

\* A handler that returns a value TaskPushNotificationConfig validates
ConfigResult(config) == [kind |-> "config", config |-> config]

\* A handler that returns a value TaskPushNotificationConfig does not validate
InvalidConfigResult == [kind |-> "invalid config"]

\* What a tasks/pushNotification/set handler may return or raise.
SetNotificationResults ==
    {NoneResult, RaiseWith("Exception", "boom"), Raise("TaskNotFoundError")}

\* What a tasks/pushNotification/get handler may return or raise.
GetNotificationResults ==
    {ConfigResult(TaskPushNotificationConfig("t1", PushConfig("http://hook"))),
     InvalidConfigResult,
     RaiseWith("Exception", "boom"), Raise("TaskNotFoundError")}

\* What a push notification request records for the properties.
NotificationRecord(method, id, task_id, config, raw_result) ==
    [method |-> method, id |-> id, task_id |-> task_id, config |-> config,
     raw_result |-> raw_result, called |-> raw_result # NoResult]

\* process_request, case "tasks/pushNotification/set", with a state manager:
\* the record is looked up under set_push_notification_request.id, and for a
\* record that is found the read of set_push_notification_request
\* .pushNotificationConfig, which is a field of the params and not of the
\* request, raises before anything is assigned.
SetNotificationWithState(id, task_id, config) ==
    IF id \in DOMAIN store THEN Crash ELSE ErrorResponse(id, "TaskNotFoundError")

\* RequestHandler.handle_set_notification, once the handler was found
SetNotificationWithoutState(id, task_id, config, raw_result) ==
    IF raw_result.kind = "raise"
    THEN HandlerErrorResponse(id, raw_result)
    ELSE ResultResponse(id, TaskPushNotificationConfig(task_id, config))

\* One tasks/pushNotification/set request.
SetNotification(id, task_id, config, raw_result) ==
    LET called == ~stateMgr /\ get_handler("tasks/pushNotification/set") # NoHandler
    IN  /\ (raw_result = NoResult) <=> ~called
        /\ resp' = IF stateMgr THEN SetNotificationWithState(id, task_id, config)
                   ELSE IF ~called THEN ErrorResponse(id, "MethodNotFoundError")
                   ELSE SetNotificationWithoutState(id, task_id, config, raw_result)
        /\ last' = NotificationRecord("tasks/pushNotification/set", id, task_id,
                                      config, raw_result)
        /\ UNCHANGED <<store, sent, natsFailures>>
        /\ UNCHANGED configVars
        /\ UNCHANGED streamVars
        /\ UNCHANGED <<registryVars, webhooks, inflight>>

\* process_request, case "tasks/pushNotification/get", with a state manager:
\* the record is looked up under get_push_notification_request.id and its
\* push_notification_config is the result.
GetNotificationWithState(id, task_id) ==
    IF id \in DOMAIN store
    THEN ResultResponse(id, store[id].push_notification_config)
    ELSE ErrorResponse(id, "TaskNotFoundError")

\* RequestHandler.handle_get_notification, once the handler was found
GetNotificationWithoutState(id, task_id, raw_result) ==
    IF raw_result.kind = "raise"
    THEN HandlerErrorResponse(id, raw_result)
    ELSE IF raw_result = InvalidConfigResult
    THEN ErrorResponseWithData(id, "InternalError", "validation error")
    ELSE ResultResponse(id, raw_result.config)

\* One tasks/pushNotification/get request.
GetNotification(id, task_id, raw_result) ==
    LET called == ~stateMgr /\ get_handler("tasks/pushNotification/get") # NoHandler
    IN  /\ (raw_result = NoResult) <=> ~called
        /\ resp' = IF stateMgr THEN GetNotificationWithState(id, task_id)
                   ELSE IF ~called THEN ErrorResponse(id, "MethodNotFoundError")
                   ELSE GetNotificationWithoutState(id, task_id, raw_result)
        /\ last' = NotificationRecord("tasks/pushNotification/get", id, task_id,
                                      PushNone, raw_result)
        /\ UNCHANGED <<store, sent, natsFailures>>
        /\ UNCHANGED configVars
        /\ UNCHANGED streamVars
        /\ UNCHANGED <<registryVars, webhooks, inflight>>

Next ==
    \/ \E id \in EnvelopeIds, task_id \in TaskIds :
         \E raw_result \in CancelResults \cup {NoResult} :
            CancelTask(id, task_id, raw_result)
    \/ \E task_id \in TaskIds, message \in UserMessages, metadata \in RequestMetadata :
         \E raw_result \in HandlerResults :
            \E natsOk1 \in BOOLEAN, natsOk2 \in BOOLEAN :
               SendTask("r9", task_id, message, metadata, PushNone, raw_result,
                        natsOk1, natsOk2, TRUE)
    \/ \E id \in EnvelopeIds, task_id \in TaskIds :
         \E raw_result \in HandlerResults \cup {NoResult} :
            GetTask(id, task_id, NoHistoryLength, raw_result)

Spec == Init /\ [][Next]_vars

(***************************************************************************)
(* The application registers its handlers.                                 *)
(***************************************************************************)
\* One call of HandlerRegistry.register by the application.
RegisterHandler(method, func, subscription) ==
    /\ Register(method, func, subscription)
    /\ UNCHANGED serverVars

NextRegistry ==
    \E method \in Methods, func \in Handlers, subscription \in BOOLEAN :
        RegisterHandler(method, func, subscription)

SpecRegistry == Init /\ [][NextRegistry]_vars

(***************************************************************************)
(* The webhook endpoint: StateManager.get_and_update_state_from_webhook    *)
(* and WebhookRequestProcessor.                                            *)
(***************************************************************************)
\* The Task snapshots a webhook request may carry for a task id.
WebhookResults(task_id) ==
    {Task(task_id, "completed", <<>>, <<BuilderArtifact(<<TextPart("w")>>)>>,
          Md({<<"user", "hook">>})),
     Task(task_id, "failed", <<Message("agent", <<TextPart("h")>>)>>, <<>>, MdNone)}

\* One Message(role="tool") per artifact of the result that has parts
ToolMessages(artifacts) ==
    LET withParts == SelectSeq(artifacts, LAMBDA a : a.parts # <<>>)
    IN  [k \in 1..Len(withParts) |-> Message("tool", withParts[k].parts)]

\* get_and_update_state_from_webhook: the record it builds from the stored
\* one and the result, before update_state.
WebhookState(existing_state, result) ==
    LET new_messages == result.history \o ToolMessages(result.artifacts)
        t == existing_state.task
    IN  [existing_state EXCEPT
            !.task = [t EXCEPT
                        !.history = t.history \o new_messages,
                        !.artifacts = t.artifacts \o result.artifacts,
                        !.metadata = IF OrEmpty(result.metadata) # {}
                                     THEN Md(DictMerge(OrEmpty(t.metadata),
                                                       OrEmpty(result.metadata)))
                                     ELSE t.metadata,
                        !.status = result.status],
            !.context_history = update_history(existing_state.context_history,
                                               new_messages)]

\* What a call of get_and_update_state_from_webhook did: whether it raised
\* and what, the store it leaves, and whether it reached the publish.
WebhookOutcome(did_raise, error, st, published) ==
    [raised |-> did_raise, error |-> error, store |-> st, published |-> published]

\* A state manager that starts a record for a task id it does not know.
GetAndUpdateStateFromWebhookCreating(st, task_id, result, natsOk) ==
    LET existing_state == IF task_id \in DOMAIN st THEN st[task_id]
                          ELSE InitializeEmptyState(task_id, PushNone)
        updated_state == WebhookState(existing_state, result)
    IN  WebhookOutcome(UpdateStateRaises(updated_state, natsOk), "Exception",
                       StorePut(st, task_id, updated_state),
                       ~PrepareUpdatePayloadRaises(updated_state))

\* StateManager.get_and_update_state_from_webhook
GetAndUpdateStateFromWebhook(st, task_id, result, natsOk) ==
    IF task_id \notin DOMAIN st
    THEN WebhookOutcome(TRUE, "ValueError", st, FALSE)
    ELSE LET updated_state == WebhookState(st[task_id], result)
         IN  WebhookOutcome(UpdateStateRaises(updated_state, natsOk), "Exception",
                            StorePut(st, task_id, updated_state),
                            ~PrepareUpdatePayloadRaises(updated_state))

\* What a webhook step records for the properties.
WebhookRecord(method, task_id, result, did_raise, error) ==
    [method |-> method, id |-> task_id, task_id |-> task_id, result |-> result,
     raised |-> did_raise, error |-> error]

\* One awaited call of get_and_update_state_from_webhook on the state manager.
ApplyWebhookResult(task_id, result, natsOk) ==
    LET outcome == GetAndUpdateStateFromWebhook(store, task_id, result, natsOk)
    IN  /\ stateMgr
        /\ webhooks < MaxWebhooks
        /\ ~natsOk => outcome.published
        /\ store' = outcome.store
        /\ last' = WebhookRecord("get_and_update_state_from_webhook", task_id, result,
                                 outcome.raised, outcome.error)
        /\ natsFailures' = natsFailures + (IF natsOk THEN 0 ELSE 1)
        /\ webhooks' = webhooks + 1
        /\ UNCHANGED <<resp, sent>>
        /\ UNCHANGED configVars
        /\ UNCHANGED streamVars
        /\ UNCHANGED <<registryVars, inflight>>

\* WebhookResponse(id, result, error)
WebhookResponse(id, result, error) ==
    [kind |-> "webhook", id |-> id, result |-> result, error |-> error]

\* What the application's webhook function may return or raise for a request.
WebhookFnResults(id) ==
    {WebhookResponse(id, NoTask, "None"),
     WebhookResponse(id, Task(id, "completed", <<>>,
                              <<BuilderArtifact(<<TextPart("done")>>)>>,
                              Md({<<"source", "fn">>})), "None"),
     Raise("Exception")}

\* _webhook_handler without a state manager: the task of the record it builds
\* from the incoming task, after the webhook function's response was applied.
WebhookHandlerTask(result, webhook_response) ==
    IF webhook_response.result = NoTask
    THEN result
    ELSE [result EXCEPT
            !.artifacts = webhook_response.result.artifacts,
            !.metadata = Md(DictMerge(OrEmpty(result.metadata),
                                      OrEmpty(webhook_response.result.metadata)))]

\* WebhookRequestProcessor.process_request. With a state manager the
\* coroutine of get_and_update_state_from_webhook is passed on without being
\* awaited: the state manager's method never runs, and _webhook_handler fails
\* on the first attribute it reads of what it takes for the record.
ProcessWebhookResponse(id, result, webhook_response) ==
    IF stateMgr \/ webhook_response.kind = "raise"
    THEN WebhookResponse(id, NoTask, "Internal error")
    ELSE WebhookResponse(id, WebhookHandlerTask(result, webhook_response), "None")

\* One request to the webhook endpoint.
ProcessWebhook(id, result, webhook_response) ==
    /\ webhooks < MaxWebhooks
    /\ resp' = ProcessWebhookResponse(id, result, webhook_response)
    /\ last' = WebhookRecord("webhook", id, result,
                             webhook_response.kind = "raise", "None")
    /\ webhooks' = webhooks + 1
    /\ UNCHANGED <<store, sent, natsFailures, inflight>>
    /\ UNCHANGED configVars
    /\ UNCHANGED streamVars
    /\ UNCHANGED registryVars

\* The metadata of the tasks/send requests of SpecWebhook.
WebhookSendMetadata == {Md({<<"user", "test">>}), Md({<<"trace", "1">>})}

NextWebhook ==
    \/ \E message \in UserMessages, metadata \in WebhookSendMetadata :
         SendTask("r9", "t1", message, metadata, PushNone, LooseContent(Str("ok")),
                  TRUE, TRUE, TRUE)
    \/ \E task_id \in TaskIds :
         \E result \in WebhookResults(task_id) :
            ApplyWebhookResult(task_id, result, TRUE)
    \/ \E id \in {"t1"} :
         \E result \in WebhookResults(id), webhook_response \in WebhookFnResults(id) :
            ProcessWebhook(id, result, webhook_response)

\* tasks/send and the webhook endpoint.
SpecWebhook == Init /\ [][NextWebhook]_vars

NextPush ==
    \/ \E func \in Handlers : RegisterHandler("tasks/send", func, FALSE)
    \/ \E task_id \in TaskIds, message \in UserMessages :
         \E push \in PushConfigs, delivered \in BOOLEAN :
            SendTask("r9", task_id, message, Md({<<"user", "test">>}), push,
                     LooseContent(Str("ok")), TRUE, TRUE, delivered)

\* tasks/send with push notification configs, on handlers registered with and
\* without forward_to_webhook.
SpecPush == Init /\ [][NextPush]_vars

(***************************************************************************)
(* Requests the server rejects before or while it dispatches them.         *)
(***************************************************************************)
\* The methods process_request has a case for.
ProtocolMethods ==
    Methods \cup {"tasks/pushNotification/set", "tasks/pushNotification/get"}

\* What the body of a POST may be: not JSON, JSON that JSONRPCRequest does
\* not validate, or a JSON-RPC envelope.
RequestBodies == {"not json", "not envelope", "envelope"}

\* What a rejected request records for the properties: the body, the method
\* and id of the envelope, whether the params validate against the schema of
\* the method, and whether a handler was called.
RejectRecord(body, method, id, valid, called) ==
    [method |-> method, id |-> id, task_id |-> "none", body |-> body,
     valid |-> valid, called |-> called]

IsRejectRecord(r) == "body" \in DOMAIN r

\* handle_request: request.json() and JSONRPCRequest.model_validate are in
\* one try block, whose except clause answers -32700 "Parse error".
HandleRequestParseError(body) ==
    IF body # "envelope" THEN ErrorResponse("None", "JSONParseError")
    ELSE NoResponse

\* _validate_request returns, and does not raise, the dict of an error
\* response when the params do not validate. process_request goes on with
\* that dict as the request: without a state manager tasks/get, tasks/cancel
\* and the push notification methods hand it to their handler, if one is
\* registered, before the first read of request.id or request.params raises.
InvalidParamsCallsHandler(method) ==
    /\ ~stateMgr
    /\ method \in {"tasks/get", "tasks/cancel",
                   "tasks/pushNotification/set", "tasks/pushNotification/get"}
    /\ get_handler(method) # NoHandler

\* process_request for a request whose params do not validate: the
\* AttributeError on the dict is raised where no except clause catches it,
\* or inside the except clause of the handler.
ProcessInvalidParams(method, id) == Crash

\* One request that is not JSON, is no envelope, names a method
\* process_request has no case for, or has params that do not validate.
HandleRequest(body, method, id, valid) ==
    /\ body # "envelope" => method = "None" /\ id = "None" /\ valid
    /\ body = "envelope" => method # "None" /\ id # "None"
    /\ method \notin ProtocolMethods => valid
    /\ body # "envelope" \/ method \notin ProtocolMethods \/ ~valid
    /\ resp' = IF body # "envelope" THEN HandleRequestParseError(body)
               ELSE IF method \notin ProtocolMethods
               THEN ErrorResponse(id, "MethodNotFoundError")
               ELSE ProcessInvalidParams(method, id)
    /\ last' = RejectRecord(body, method, id, valid,
                            body = "envelope" /\ method \in ProtocolMethods
                               /\ InvalidParamsCallsHandler(method))
    /\ UNCHANGED <<store, sent, natsFailures, webhooks, inflight>>
    /\ UNCHANGED configVars
    /\ UNCHANGED streamVars
    /\ UNCHANGED registryVars

NextDispatch ==
    \/ \E body \in RequestBodies, valid \in BOOLEAN :
         \E method \in ProtocolMethods \cup {"tasks/resubscribe", "None"} :
            \E id \in EnvelopeIds \cup {"None"} :
               HandleRequest(body, method, id, valid)
    \/ \E method \in ProtocolMethods \ Methods, func \in Handlers :
         RegisterHandler(method, func, FALSE)
    \/ \E message \in UserMessages, metadata \in RequestMetadata :
         \E raw_result \in {LooseContent(Str("ok")), Raise("Exception")} :
            SendTask("r9", "t1", message, metadata, PushNone, raw_result,
                     TRUE, TRUE, TRUE)

\* The dispatcher with the requests it rejects.
SpecDispatch == Init /\ [][NextDispatch]_vars

(***************************************************************************)
(* The unary handlers with what they may return or raise.                  *)
(***************************************************************************)
\* A handler raises an exception that is no JSONRPCError, or a JSONRPCError.
HandlerRaises == {RaiseWith("Exception", "boom"), Raise("TaskNotFoundError")}

\* The Task objects a handler may return for a request on task_id: one with
\* the id of the request and metadata of its own, one with another id.
HandlerTask(id, state) ==
    Task(id, state, <<>>, <<BuilderArtifact(<<TextPart("ok")>>)>>,
         Md({<<"source", "handler">>}))

HandlerTasks(state) == {TaskResult(HandlerTask("t1", state)),
                        TaskResult(HandlerTask("t9", state))}

NextHandlers ==
    \/ \E method \in ProtocolMethods \ Methods :
         RegisterHandler(method, Handler("f1", FALSE), FALSE)
    \/ \E message \in UserMessages :
         \E raw_result \in HandlerTasks("completed") \cup HandlerRaises :
            SendTask("r9", "t1", message, Md({<<"user", "test">>}), PushNone,
                     raw_result, TRUE, TRUE, TRUE)
    \/ \E raw_result \in HandlerTasks("completed") \cup HandlerRaises \cup {NoResult} :
         GetTask("r9", "t1", NoHistoryLength, raw_result)
    \/ \E raw_result \in HandlerTasks("canceled") \cup HandlerRaises \cup {NoResult} :
         CancelTask("r9", "t1", raw_result)
    \/ \E raw_result \in SetNotificationResults \cup {NoResult} :
         SetNotification("r9", "t1", PushConfig("http://hook"), raw_result)
    \/ \E raw_result \in GetNotificationResults \cup {NoResult} :
         GetNotification("r9", "t1", raw_result)

\* The five unary methods, on handlers that return Tasks or raise.
SpecHandlers == Init /\ [][NextHandlers]_vars

(***************************************************************************)
(* The task builder on the loose contents a handler may return.            *)
(***************************************************************************)
\* A string, a Part, an Artifact, and lists: empty, of strings and Parts, of
\* an Artifact among other items, and of Artifacts only.
LooseContents ==
    {Str("a"),
     PartContent(FilePart("b")),
     ArtifactContent(<<TextPart("x"), TextPart("y")>>),
     ListContent(<<>>),
     ListContent(<<Str("a"), PartContent(FilePart("b"))>>),
     ListContent(<<ArtifactContent(<<TextPart("x"), TextPart("y")>>), Str("a")>>),
     ListContent(<<ArtifactContent(<<TextPart("x")>>), ArtifactContent(<<TextPart("y")>>)>>)}

NextBuilder ==
    \E message \in UserMessages, content \in LooseContents :
        SendTask("r9", "t1", message, Md({<<"user", "test">>}), PushNone,
                 LooseContent(content), TRUE, TRUE, TRUE)

\* tasks/send on a handler that returns loose content.
SpecBuilder == Init /\ [][NextBuilder]_vars

(***************************************************************************)
(* The methods that look a task up: tasks/get, tasks/cancel and the push   *)
(* notification methods, after tasks/send on t1.                           *)
(***************************************************************************)
\* params.historyLength: absent, or 0 .. MaxHistoryLength
HistoryLengths == {NoHistoryLength} \cup 0..MaxHistoryLength

\* The Task a tasks/get handler returns: one with a history of two messages.
StoredTask(id) ==
    Task(id, "completed",
         <<Message("user", <<TextPart("hi")>>), Message("agent", <<TextPart("ok")>>)>>,
         <<BuilderArtifact(<<TextPart("ok")>>)>>, Md({<<"source", "handler">>}))

NextLookup ==
    \/ \E method \in ProtocolMethods \ Methods :
         RegisterHandler(method, Handler("f1", FALSE), FALSE)
    \/ \E message \in UserMessages, push \in PushConfigs :
         SendTask("r9", "t1", message, Md({<<"user", "test">>}), push,
                  LooseContent(Str("ok")), TRUE, TRUE, TRUE)
    \/ \E id \in EnvelopeIds, task_id \in TaskIds, historyLength \in HistoryLengths :
         \E raw_result \in {TaskResult(StoredTask(task_id)), NoResult} :
            GetTask(id, task_id, historyLength, raw_result)
    \/ \E id \in EnvelopeIds, task_id \in TaskIds :
         \E raw_result \in {A2AStatus("canceled", "absent"), NoResult} :
            CancelTask(id, task_id, raw_result)
    \/ \E id \in EnvelopeIds, task_id \in TaskIds :
         \E raw_result \in {NoneResult, NoResult} :
            SetNotification(id, task_id, PushConfig("http://other"), raw_result)
    \/ \E id \in EnvelopeIds, task_id \in TaskIds :
         \E raw_result \in {ConfigResult(TaskPushNotificationConfig(
                                            task_id, PushConfig("http://hook"))),
                            NoResult} :
            GetNotification(id, task_id, raw_result)

SpecLookup == Init /\ [][NextLookup]_vars

(***************************************************************************)
(* Requests handled concurrently. A coroutine gives way to the others where *)
(* it awaits: a tasks/send while its handler runs, a stream between chunks. *)
(***************************************************************************)
\* The message and the handler's result of a client's tasks/send
ClientMessage(client) == Message("user", <<TextPart(client)>>)

ClientResult(client) == LooseContent(Str(client))

\* process_request, case "tasks/send", with a state manager, up to the call
\* of the handler: get_or_create_and_update_state has persisted the record,
\* handle_send_task has copied its histories, and the handler is awaited.
SendBegin(client, task_id, message, metadata, push) ==
    LET state_data == GetOrCreateState(store, task_id, message, metadata, push)
    IN  /\ stateMgr
        /\ get_handler("tasks/send") # NoHandler
        /\ inflight[client].pc = "idle"
        /\ ~PrepareUpdatePayloadRaises(state_data)
        /\ store' = StorePut(store, task_id, state_data)
        /\ inflight' = [inflight EXCEPT ![client] =
                           [pc |-> "called", task_id |-> task_id, message |-> message,
                            push |-> push, state_data |-> state_data]]
        /\ UNCHANGED <<resp, last, sent, natsFailures, webhooks>>
        /\ UNCHANGED configVars
        /\ UNCHANGED streamVars
        /\ UNCHANGED registryVars

\* handle_send_task from the return of the handler on: the task is built on
\* the copies made before the call and the record is handed to update_state.
SendFinish(client, raw_result) ==
    LET call == inflight[client]
        updated == SendTaskUpdate(call.state_data, call.task_id, call.push, raw_result)
    IN  /\ inflight[client].pc = "called"
        /\ store' = StorePut(store, call.task_id, updated)
        /\ inflight' = [inflight EXCEPT ![client] =
                           [call EXCEPT !.pc = "done"] @@
                           [raw_result |-> raw_result,
                            resp |-> ResultResponse(client, updated.task)]]
        /\ UNCHANGED <<resp, last, sent, natsFailures, webhooks>>
        /\ UNCHANGED configVars
        /\ UNCHANGED streamVars
        /\ UNCHANGED registryVars

\* Two clients send on t2 while webhook results for t2 arrive.
NextRace ==
    \/ \E client \in Clients :
         SendBegin(client, "t2", ClientMessage(client), Md({<<"user", "test">>}), PushNone)
    \/ \E client \in Clients : SendFinish(client, ClientResult(client))
    \/ \E result \in WebhookResults("t2") : ApplyWebhookResult("t2", result, TRUE)

SpecRace == Init /\ [][NextRace]_vars

\* The chunks of the stream that runs beside the other requests
ConcurrentChunks ==
    {A2AStreamResponse(Str("a"), 0, FALSE, FALSE), A2AStatus("working", "absent")}

\* A stream on t1 and, between its chunks, tasks/cancel and
\* tasks/pushNotification/set on any id, a tasks/send on t2 and webhook
\* results for t2.
NextConcurrent ==
    \/ \E message \in UserMessages :
         StartStream("t1", message, Md({<<"user", "test">>}), TRUE)
    \/ \E chunk \in ConcurrentChunks : StreamChunk(chunk, TRUE)
    \/ StreamEnd
    \/ \E id \in EnvelopeIds, task_id \in TaskIds :
         \E raw_result \in {A2AStatus("canceled", "absent"), NoResult} :
            CancelTask(id, task_id, raw_result)
    \/ \E id \in EnvelopeIds, task_id \in TaskIds :
         \E raw_result \in {NoneResult, NoResult} :
            SetNotification(id, task_id, PushConfig("http://other"), raw_result)
    \/ SendBegin("c1", "t2", ClientMessage("c1"), Md({<<"user", "test">>}), PushNone)
    \/ SendFinish("c1", ClientResult("c1"))
    \/ \E result \in WebhookResults("t2") : ApplyWebhookResult("t2", result, TRUE)

SpecConcurrent == Init /\ [][NextConcurrent]_vars

(***************************************************************************)
(* The operations on one task id, one after the other: tasks/send and      *)
(* webhook results before and after the stream, tasks/get and tasks/cancel *)
(* after it.                                                               *)
(***************************************************************************)
NextTasks ==
    \/ \E message \in UserMessages, push \in PushConfigs :
         /\ spc # "running"
         /\ SendTask("r9", "t1", message, Md({<<"user", "test">>}), push,
                     LooseContent(Str("ok")), TRUE, TRUE, TRUE)
    \/ \E message \in UserMessages :
         StartStream("t1", message, Md({<<"user", "test">>}), TRUE)
    \/ \E chunk \in ConcurrentChunks : StreamChunk(chunk, TRUE)
    \/ StreamEnd
    \/ spc = "done" /\ GetTask("t1", "t1", 1, NoResult)
    \/ spc = "done" /\ CancelTask("t1", "t1", NoResult)
    \/ \E artifacts \in {<<BuilderArtifact(<<TextPart("w")>>)>>} :
         /\ spc # "running"
         /\ ApplyWebhookResult("t1", Task("t1", "completed", <<>>, artifacts, MdNone),
                               TRUE)

SpecTasks == Init /\ [][NextTasks]_vars

(***************************************************************************)
(* Properties of the registry.                                             *)
(***************************************************************************)
\* C11: a register call for a method that is already registered, as unary or
\* as streaming, raises and leaves the registry as it was; so the handler and
\* the subscription looked up for a registered method never change.
C11_RegistryWriteOnce ==
    [][/\ (lastReg' # lastReg /\ lastReg'.method \in registered)
          => /\ lastReg'.raised
             /\ handlers' = handlers
             /\ subscriptions' = subscriptions
             /\ registered' = registered
       /\ \A method \in registered :
             /\ method \in registered'
             /\ get_handler(method)' = get_handler(method)
             /\ get_subscription(method)' = get_subscription(method)]_vars

\* A second handler for tasks/send was refused, as a subscription, and the
\* first one is still the handler of tasks/send.
C11_Witness ==
    /\ lastReg = RegisterCall("tasks/send", Handler("f2", TRUE), TRUE, TRUE)
    /\ get_handler("tasks/send") = Handler("f1", FALSE)
    /\ get_subscription("tasks/send") = NoHandler

(***************************************************************************)
(* Properties of the stream.                                               *)
(***************************************************************************)
IsContentChunk(chunk) == chunk.kind \in {"A2AStreamResponse", "raw"}

IsRecognized(chunk) == chunk.kind # "other"

\* The content chunks before position k that were at the index of chunk k.
EarlierAtIndex(k) ==
    {j \in 1..(k - 1) : /\ IsContentChunk(yielded[j])
                        /\ StreamItem(yielded[j]).index = StreamItem(yielded[k]).index}

ArtifactFrames ==
    {k \in 1..Len(frames) : /\ frames[k].kind = "result"
                            /\ frames[k].result.kind = "TaskArtifactUpdateEvent"}

\* Frame k carries the event of chunk k.
FrameMatchesChunk(k) ==
    LET chunk == yielded[k]
        event == frames[k].result
    IN  CASE chunk.kind = "A2AStatus" ->
                event.kind = "TaskStatusUpdateEvent" /\ event.state = chunk.status
          [] chunk.kind = "A2AStreamResponse" ->
                /\ event.kind = "TaskArtifactUpdateEvent"
                /\ event.artifact.index = chunk.index
                /\ event.artifact.parts = <<[type |-> "text", text |-> chunk.content.text]>>
          [] chunk.kind = "raw" ->
                /\ event.kind = "TaskArtifactUpdateEvent"
                /\ event.artifact.index = 0
                /\ Len(event.artifact.parts) = 2
          [] OTHER -> event = chunk

\* C1: a content chunk that does not declare append is emitted with
\* append = false when it is the first chunk of the stream at its index and
\* with append = true when an earlier chunk was at that index.
C1_AppendIffEarlierChunkAtIndex ==
    \A k \in 1..Len(yielded) :
        (/\ IsContentChunk(yielded[k])
         /\ ~StreamItem(yielded[k]).append
         /\ frames[k].kind = "result")
        => (frames[k].result.artifact.append <=> EarlierAtIndex(k) # {})

\* C2: an emitted ArtifactUpdate has lastChunk = true exactly when its chunk
\* declared itself final or an earlier chunk at the same index did; so the
\* flag sticks at that index and other indices are not affected.
C2_LastChunkSticksPerIndex ==
    \A k \in 1..Len(yielded) :
        (IsContentChunk(yielded[k]) /\ frames[k].kind = "result")
        => (frames[k].result.artifact.lastChunk
            <=> \/ StreamItem(yielded[k]).final
                \/ \E j \in EarlierAtIndex(k) : StreamItem(yielded[j]).final)

\* A chunk that is not final is emitted with lastChunk = true after a final
\* chunk at its index, and a later chunk at another index with lastChunk = false.
C2_Witness ==
    \E k \in 1..Len(yielded) : \E m \in 1..Len(yielded) :
        /\ IsContentChunk(yielded[k]) /\ ~StreamItem(yielded[k]).final
        /\ frames[k].kind = "result" /\ frames[k].result.artifact.lastChunk
        /\ m > k /\ IsContentChunk(yielded[m]) /\ StreamItem(yielded[m]).index = 1
        /\ frames[m].kind = "result" /\ ~frames[m].result.artifact.lastChunk

\* C3: a bare status chunk becomes a StatusUpdate with the chunk's state and
\* with final equal to the chunk's final flag when it supplies one, and to
\* (state = completed) otherwise.
C3_StatusFinalFromChunk ==
    \A k \in 1..Len(yielded) :
        (yielded[k].kind = "A2AStatus" /\ frames[k].kind = "result")
        => /\ frames[k].result.kind = "TaskStatusUpdateEvent"
           /\ frames[k].result.state = yielded[k].status
           /\ frames[k].result.final =
                 IF yielded[k].final # "absent"
                 THEN yielded[k].final = "true"
                 ELSE yielded[k].status = "completed"

\* C4: a stream whose handler yields recognized chunks and does not raise
\* emits one frame per chunk, in the handler's order, each the event of its
\* chunk unless its persist failed, and nothing more.
C4_OneFramePerChunkInOrder ==
    (spc \in {"running", "done"} /\ ~raised.did)
    => /\ Len(frames) = Len(yielded)
       /\ \A k \in 1..Len(yielded) :
             frames[k].kind = "result" => FrameMatchesChunk(k)
       /\ Cardinality({k \in 1..Len(yielded) :
                          IsRecognized(yielded[k]) /\ frames[k].kind = "error"})
             <= natsFailures

\* The stream of [status working, "a", status completed] has ended with the
\* frames StatusUpdate, ArtifactUpdate, StatusUpdate.
C4_Witness ==
    /\ spc = "done" /\ ~raised.did
    /\ yielded = <<A2AStatus("working", "absent"),
                   A2AStreamResponse(Str("a"), 0, FALSE, FALSE),
                   A2AStatus("completed", "absent")>>
    /\ Len(frames) = 3
    /\ frames[1] = ResultFrame(TaskStatusUpdateEvent("working", FALSE))
    /\ frames[2].kind = "result"
    /\ frames[2].result.kind = "TaskArtifactUpdateEvent"
    /\ frames[3] = ResultFrame(TaskStatusUpdateEvent("completed", TRUE))

\* The agent messages of the ArtifactUpdate frames emitted so far, in order.
RECURSIVE ObservedMessages(_)
ObservedMessages(n) ==
    IF n = 0 THEN <<>>
    ELSE IF n \in ArtifactFrames
         THEN Append(ObservedMessages(n - 1),
                     [role |-> "agent", parts |-> frames[n].result.artifact.parts])
         ELSE ObservedMessages(n - 1)

IsPrefix(p, q) == Len(p) <= Len(q) /\ SubSeq(q, 1, Len(p)) = p

\* C5: with a state manager, whenever an ArtifactUpdate frame has been handed
\* to the transport the stored history of the task holds the incoming message
\* followed by the agent message of that frame and of every earlier
\* ArtifactUpdate frame of the stream.
C5_PersistedNotBehindObserved ==
    (stateMgr /\ spc \in {"running", "done"})
    => /\ sreq.id \in DOMAIN store
       /\ IsPrefix(<<sreq.message>> \o ObservedMessages(Len(frames)),
                   store[sreq.id].task.history)

\* Two ArtifactUpdate frames were emitted and both messages are stored.
C5_Witness ==
    /\ stateMgr /\ spc = "running"
    /\ Cardinality(ArtifactFrames) = 2
    /\ Len(store[sreq.id].task.history) = 3

\* C6: a chunk of unrecognized shape is answered by one error event carrying
\* InvalidParams, and the stream goes on.
C6_UnrecognizedChunkGivesInvalidParams ==
    \A k \in 1..Len(yielded) :
        yielded[k].kind = "other"
        => Len(frames) >= k /\ frames[k] = [kind |-> "error", error |-> "InvalidParamsError"]

\* C7: when the handler raises after k chunks the stream is the k frames of
\* those chunks, then one error frame, TaskNotFound when the message contains
\* "not found" in any case and Internal otherwise, and then it has ended.
C7_RaiseGivesOneTerminalError ==
    raised.did
    => /\ spc = "done"
       /\ Len(frames) = Len(yielded) + 1
       /\ \A k \in 1..Len(yielded) :
             /\ frames[k].kind = "result" => FrameMatchesChunk(k)
             /\ frames[k].kind = "error" => frames[k].error = "InternalError"
       /\ frames[Len(frames)].kind = "error"
       /\ raised.msg = TaskNotFoundMsg => frames[Len(frames)].error = "TaskNotFoundError"
       /\ raised.msg = FoundNotMsg => frames[Len(frames)].error = "InternalError"

\* The handler raised "Task Not Found" after two chunks.
C7_Witness ==
    /\ raised.did /\ raised.msg = TaskNotFoundMsg
    /\ Len(yielded) = 2
    /\ frames[1].kind = "result" /\ frames[2].kind = "result"
    /\ frames[3] = [kind |-> "error", error |-> "TaskNotFoundError"]

(***************************************************************************)
(* Properties of tasks/send and tasks/get.                                 *)
(***************************************************************************)
OkMessage == [role |-> "agent", parts |-> <<[type |-> "text", text |-> "ok"]>>]

C10_GetAfterSendReturnsSameTask ==
    (stateMgr /\ last.method = "tasks/get" /\ last.follows.kind = "result")
    => /\ resp.kind = "result"
       /\ resp.result.id = last.follows.result.id
       /\ resp.result.status = last.follows.result.status
       /\ resp.result.history = last.follows.result.history

(***************************************************************************)
(* Properties of tasks/cancel.                                             *)
(***************************************************************************)
\* The state of the Task a cancel handler's output stands for: the state the
\* output names, canceled when it names none.
CancelResultingState(raw_result) ==
    IF raw_result.kind \in {"A2AStatus", "A2AResponse"}
    THEN raw_result.status ELSE "canceled"

TerminalStates == {"completed", "canceled", "failed"}

\* C13: once the stored status of a task id is completed, canceled or failed,
\* no operation changes it to another state.
C13_TerminalStatusNeverChanges ==
    [][\A t \in DOMAIN store :
          store[t].task.status \in TerminalStates
          => /\ t \in DOMAIN store'
             /\ store'[t].task.status = store[t].task.status]_vars

\* C14: a tasks/send on a task id whose stored status is input-required
\* persists and hands to the handler a record with status working.
C14_InputRequiredBecomesWorking ==
    [][(/\ stateMgr
        /\ sent' # sent
        /\ last'.task_id \in DOMAIN store
        /\ store[last'.task_id].task.status = "input-required")
       => last'.handed.task.status = "working"]_vars

\* C15: get_or_create_and_update_state on a task id without a record
\* persists a record of that id with status working, the incoming message as
\* its whole history and no artifacts; on a task id with a record it adds no
\* record and appends the incoming message to the end of task.history.
C15_GetOrCreateBirthAndAppend ==
    [][(stateMgr /\ sent' # sent)
       => LET t == last'.task_id
              h == last'.handed
          IN  /\ h.task_id = t /\ h.task.id = t
              /\ t \in DOMAIN store'
              /\ ~last'.called => store'[t] = h
              /\ IF t \notin DOMAIN store
                 THEN /\ h.task.status = "working"
                      /\ h.task.history = <<last'.message>>
                      /\ h.task.artifacts = <<>>
                      /\ DOMAIN store' = DOMAIN store \cup {t}
                 ELSE /\ h.task.history = Append(store[t].task.history, last'.message)
                      /\ DOMAIN store' = DOMAIN store]_vars

\* The message of a second tasks/send was appended after the user and agent
\* messages the record of its task id already had.
C15_Witness ==
    /\ stateMgr
    /\ last.method = "tasks/send"
    /\ ~last.fresh
    /\ Len(last.handed.task.history) = 3
    /\ last.handed.task.history[3] = last.message
    /\ last.handed.task.history[2].role = "agent"

\* C16: get_or_create_and_update_state merges the request's metadata into
\* the stored metadata: in the record a tasks/send persists and hands to
\* the handler, every key of the request has the request's value and every
\* other stored key keeps its value; a request without metadata leaves the
\* stored metadata as it was.
C16_GetOrCreateMergesMetadata ==
    [][(stateMgr /\ sent' # sent /\ ~last'.fresh)
       => LET t == last'.task_id
          IN  OrEmpty(last'.handed.task.metadata)
                = DictMerge(OrEmpty(store[t].task.metadata), OrEmpty(last'.metadata))]_vars


(***************************************************************************)
(* Properties of the webhook results.                                      *)
(***************************************************************************)
IsWebhookStep == webhooks' # webhooks

\* C17: get_and_update_state_from_webhook for a task id that has no record
\* raises, creates no record and leaves every other record as it was; a
\* request to the webhook endpoint for such an id changes no record either.
C17_WebhookOnUnknownIdFails ==
    [][(IsWebhookStep /\ last'.task_id \notin DOMAIN store)
       => /\ store' = store
          /\ last'.method = "get_and_update_state_from_webhook"
                => last'.raised /\ last'.error = "ValueError"]_vars

\* A webhook result for t2, which has no record, was refused while t1 has one.
C17_Witness ==
    /\ last.method = "get_and_update_state_from_webhook"
    /\ last.task_id = "t2"
    /\ last.raised
    /\ DOMAIN store = {"t1"}

Range(seq) == {seq[k] : k \in 1..Len(seq)}

Count(seq, x) == Cardinality({k \in 1..Len(seq) : seq[k] = x})

\* merged holds every entry of stored and of incoming, and no further copy of
\* an entry that both of them hold
IsUnionOf(merged, stored, incoming) ==
    /\ \A x \in Range(stored) \cup Range(incoming) : Count(merged, x) >= 1
    /\ \A x \in Range(stored) \cap Range(incoming) : Count(merged, x) = Count(stored, x)

\* C18: get_and_update_state_from_webhook on a stored record merges by union:
\* task.history and task.artifacts hold every stored and every incoming entry,
\* an entry of both sides once, so that the same snapshot applied a second
\* time changes neither of them; the metadata is the stored one updated with the
\* incoming one; the context history receives, through the history strategy,
\* one tool message per incoming artifact (after the incoming history
\* entries or without them); the status is the incoming one.
C18_WebhookMergeIsUnion ==
    [][(/\ IsWebhookStep
        /\ last'.method = "get_and_update_state_from_webhook"
        /\ last'.task_id \in DOMAIN store)
       => LET t == last'.task_id
              stored == store[t]
              merged == store'[t]
              incoming == last'.result
          IN  /\ IsUnionOf(merged.task.history, stored.task.history, incoming.history)
              /\ IsUnionOf(merged.task.artifacts, stored.task.artifacts,
                           incoming.artifacts)
              /\ (last.method = last'.method /\ last.task_id = t /\ ~last.raised
                    /\ last.result = incoming)
                    => /\ merged.task.history = stored.task.history
                       /\ merged.task.artifacts = stored.task.artifacts
              /\ OrEmpty(merged.task.metadata)
                    = DictMerge(OrEmpty(stored.task.metadata),
                                OrEmpty(incoming.metadata))
              /\ \E others \in {<<>>, incoming.history} :
                    merged.context_history
                       = update_history(stored.context_history,
                                        others \o ToolMessages(incoming.artifacts))
              /\ merged.task.status = incoming.status]_vars

(***************************************************************************)
(* Properties of the delivery to the push notification URL.                *)
(***************************************************************************)
\* The push notification config a tasks/send works with: the request's, or
\* else the one of the record handed to the handler.
EffectivePush == PushOr(last.pushNotification, last.handed.push_notification_config)

\* C20: the delivery of tasks/send is best-effort. At most one delivery is
\* attempted per request; none is attempted when no URL is configured or the
\* handler is not flagged forward_to_webhook; and after a delivery that
\* failed the response is the result Task and the record holds that Task and
\* the push notification config, as after one that succeeded.
C20_DeliveryBestEffort ==
    last.method = "tasks/send"
    => /\ Len(last.deliveries) <= 1
       /\ (EffectivePush = PushNone \/ ~get_handler("tasks/send").forward_to_webhook)
             => last.deliveries = <<>>
       /\ \A k \in 1..Len(last.deliveries) :
             LET d == last.deliveries[k]
             IN  /\ d.url = EffectivePush.url
                 /\ resp = ResultResponse(last.id, d.task)
                 /\ stateMgr => /\ store[last.task_id].task = d.task
                                /\ store[last.task_id].push_notification_config
                                      = EffectivePush

\* A delivery failed on a server with a state manager.
C20_Witness ==
    /\ last.method = "tasks/send"
    /\ stateMgr
    /\ Len(last.deliveries) = 1
    /\ ~last.deliveries[1].ok
    /\ resp.kind = "result"

(***************************************************************************)
(* Properties of the dispatcher.                                           *)
(***************************************************************************)
\* C21: a request whose params do not validate against the schema of its
\* method is answered with InvalidParamsError; no handler is called for it
\* and the store is left as it was.
C21_InvalidParamsAnsweredBeforeHandler ==
    [][(IsRejectRecord(last') /\ ~last'.valid)
       => /\ resp' = ErrorResponse(last'.id, "InvalidParamsError")
          /\ ~last'.called
          /\ store' = store]_vars

\* C22: a rejected request is classified: a body that is not JSON gives
\* the parse error, a JSON body that is no envelope gives InvalidRequestError,
\* an envelope whose method is none of the six protocol methods gives
\* MethodNotFoundError, and so does, on a server without state manager, a
\* tasks/send for which no handler is registered.
C22_RejectedRequestClassified ==
    /\ IsRejectRecord(last)
       => /\ last.body = "not json" => resp.error = "JSONParseError"
          /\ last.body = "not envelope" => resp.error = "InvalidRequestError"
          /\ (last.body = "envelope" /\ last.method \notin ProtocolMethods)
                => resp = ErrorResponse(last.id, "MethodNotFoundError")
    /\ (last.method = "tasks/send" /\ ~IsRejectRecord(last) /\ ~stateMgr
          /\ get_handler("tasks/send") = NoHandler)
       => resp = ErrorResponse(last.id, "MethodNotFoundError")

(***************************************************************************)
(* Properties of the unary handlers.                                       *)
(***************************************************************************)
\* The last request was one of a unary method whose handler was called.
HandlerWasCalled ==
    /\ ~IsRejectRecord(last)
    /\ last.method \in ProtocolMethods \ {"tasks/sendSubscribe"}
    /\ last.called

\* C23: when the handler of a unary method raises a JSONRPCError the response
\* carries that error, and when it raises another exception the response
\* carries InternalError with the message of the exception as data; neither
\* response has a result.
C23_HandlerErrorPassedOrWrapped ==
    (HandlerWasCalled /\ last.raw_result.kind = "raise")
    => /\ resp.kind = "error"
       /\ resp.id = last.id
       /\ IF last.raw_result.error = "Exception"
          THEN resp.error = "InternalError" /\ resp.data = last.raw_result.message
          ELSE resp.error = last.raw_result.error /\ resp.data = "None"

\* The handler of tasks/send raised an exception that is no JSONRPCError, on
\* a server with a state manager.
C23_Witness ==
    /\ HandlerWasCalled
    /\ stateMgr
    /\ last.method = "tasks/send"
    /\ last.raw_result = RaiseWith("Exception", "boom")
    /\ resp.kind = "error"

\* C24: every record of the store holds a task whose id is the id the record
\* is stored under; and when the handler of tasks/send, tasks/get or
\* tasks/cancel returns a Task whose id is not the params.id of the request,
\* the response is InvalidParamsError, without result.
C24_TaskIdConsistent ==
    /\ \A t \in DOMAIN store : store[t].task.id = t
    /\ (/\ HandlerWasCalled
        /\ last.method \in {"tasks/send", "tasks/get", "tasks/cancel"}
        /\ last.raw_result.kind = "Task"
        /\ last.raw_result.task.id # last.task_id)
       => resp.kind = "error" /\ resp.error = "InvalidParamsError"

\* C26: when the handler of tasks/send returns a Task with metadata of its
\* own, the metadata of the result is the metadata of the request merged with
\* the handler's, and the record of the task holds the metadata of the result.
C26_HandlerMetadataMerged ==
    (/\ last.method = "tasks/send"
     /\ last.called
     /\ last.raw_result.kind = "Task"
     /\ resp.kind = "result")
    => /\ OrEmpty(resp.result.metadata)
             = DictMerge(OrEmpty(last.metadata), OrEmpty(last.raw_result.task.metadata))
       /\ stateMgr => store[last.task_id].task.metadata = resp.result.metadata

(***************************************************************************)
(* Properties of the methods that look a task up.                          *)
(***************************************************************************)
\* The last min(n, Len(history)) entries of history, in their order
LastMin(history, n) ==
    IF n >= Len(history) THEN history
    ELSE [k \in 1..n |-> history[Len(history) - n + k]]

\* C27: tasks/get with historyLength n returns the task with the last
\* min(n, length) entries of its history, in their order, and without
\* historyLength the whole history: when the task is the stored one and when
\* it is the one a tasks/get handler returned.
C27_GetHistoryLength ==
    (/\ last.method = "tasks/get"
     /\ resp.kind = "result"
     /\ IF stateMgr THEN last.task_id \in DOMAIN store
        ELSE last.raw_result.kind = "Task")
    => LET history == IF stateMgr THEN store[last.task_id].task.history
                      ELSE last.raw_result.task.history
       IN  resp.result.history
              = IF last.historyLength = NoHistoryLength THEN history
                ELSE LastMin(history, last.historyLength)

LookupMethods ==
    {"tasks/get", "tasks/cancel", "tasks/pushNotification/set",
     "tasks/pushNotification/get"}

\* A step that handled a request of one of the methods that look a task up.
IsLookupStep == last' # last /\ last'.method \in LookupMethods /\ ~IsRejectRecord(last')

IsTaskNotFound(response) ==
    response.kind = "error" /\ response.error = "TaskNotFoundError"

\* C28: on a server with a state store, tasks/get, tasks/cancel and the push
\* notification methods answer TaskNotFoundError for a params.id without
\* record, and create none; they never answer TaskNotFoundError for a
\* params.id that has a record; tasks/get and tasks/pushNotification/get
\* leave the store as it was.
C28_LookupByTaskId ==
    [][(stateMgr /\ IsLookupStep)
       => /\ last'.task_id \notin DOMAIN store
             => IsTaskNotFound(resp') /\ DOMAIN store' = DOMAIN store
          /\ last'.task_id \in DOMAIN store => ~IsTaskNotFound(resp')
          /\ last'.method \in {"tasks/get", "tasks/pushNotification/get"}
             => store' = store]_vars

\* C29: on a server with a state store, a tasks/cancel on a task id that has
\* a record is answered with the Task, and the status of the record is then
\* canceled; unless it is answered with TaskNotCancelableError.
C29_CancelStoresCanceled ==
    [][(stateMgr /\ IsLookupStep /\ last'.method = "tasks/cancel"
          /\ last'.task_id \in DOMAIN store)
       => \/ resp' = ErrorResponse(last'.id, "TaskNotCancelableError")
          \/ /\ resp'.kind = "result"
             /\ resp'.result = store'[last'.task_id].task
             /\ store'[last'.task_id].task.status = "canceled"]_vars

\* C30: on a server with a state store, tasks/pushNotification/set with
\* config c on a task id that has a record is answered with c, and changes
\* the push_notification_config of the record to c and nothing else; a
\* tasks/pushNotification/get on a task id that has a record is answered with
\* the config of the record.
C30_PushNotificationRoundTrip ==
    [][(stateMgr /\ IsLookupStep /\ last'.task_id \in DOMAIN store)
       => LET t == last'.task_id
              c == last'.config
          IN  /\ last'.method = "tasks/pushNotification/set"
                 => /\ resp'.kind = "result"
                    /\ resp'.result \in {c, [id |-> t, pushNotificationConfig |-> c]}
                    /\ store' = [store EXCEPT ![t].push_notification_config = c]
              /\ last'.method = "tasks/pushNotification/get"
                 => /\ resp'.kind = "result"
                    /\ LET stored == store[t].push_notification_config
                       IN  resp'.result
                              \in {stored, [id |-> t, pushNotificationConfig |-> stored]}]_vars

(***************************************************************************)
(* Properties of the task builder.                                         *)
(***************************************************************************)
IsArtifactsOnly(content) ==
    /\ content.shape = "list"
    /\ content.elems # <<>>
    /\ \A k \in 1..Len(content.elems) : content.elems[k].shape = "artifact"

\* The parts an item stands for: a string is wrapped as a text part, a Part
\* is itself, an Artifact contributes its parts.
ItemParts(item) ==
    IF item.shape = "str" THEN <<[type |-> "text", text |-> item.text]>> ELSE item.parts

RECURSIVE ItemsParts(_)
ItemsParts(items) ==
    IF items = <<>> THEN <<>> ELSE ItemParts(Head(items)) \o ItemsParts(Tail(items))

\* C25: the task built from loose content (a string, a Part, an Artifact, or
\* a list that is not made of Artifacts only, the empty list included) has
\* exactly one Artifact, whose parts are the items in order; the task built
\* from a list of Artifacts only has those Artifacts, in order.
C25_LooseContentNormalized ==
    (/\ last.method = "tasks/send"
     /\ last.called
     /\ last.raw_result.kind = "content"
     /\ resp.kind = "result")
    => LET content == last.raw_result.content
           artifacts == resp.result.artifacts
       IN  IF IsArtifactsOnly(content)
           THEN /\ Len(artifacts) = Len(content.elems)
                /\ \A k \in 1..Len(artifacts) :
                      artifacts[k].parts = content.elems[k].parts
           ELSE /\ Len(artifacts) = 1
                /\ artifacts[1].parts
                      = IF content.shape = "list" THEN ItemsParts(content.elems)
                        ELSE ItemParts(content)

(***************************************************************************)
(* Properties of the publish to the event sink.                            *)
(***************************************************************************)
\* C19: a tasks/send during which a publish to the event sink failed has
\* persisted the record and answers as it would have had the publish
\* succeeded: with the Task when the handler returns, with the handler's
\* error when it raises, never with an error of its own or none at all.
C19_PublishFailureNotSurfaced ==
    (/\ last.method = "tasks/send"
     /\ ~last.natsOk1 \/ ~last.natsOk2
     /\ ~last.metadata.isNone
     /\ get_handler("tasks/send") # NoHandler)
    => /\ last.task_id \in DOMAIN store
       /\ IF last.raw_result.kind = "raise"
          THEN resp = HandlerErrorResponse(last.id, last.raw_result)
          ELSE resp.kind = "result"


(***************************************************************************)
(* Properties of the webhook endpoint.                                     *)
(***************************************************************************)
\* C31: a request to the webhook endpoint for a task id that has a record,
\* whose webhook function returns, is answered without error with the task
\* of the record it leaves in the store, and that record holds the incoming
\* result merged into the record stored before (the merge comes first, the
\* webhook function's Task is applied to what the merge left).
C31_WebhookStepsInOrder ==
    [][(/\ IsWebhookStep
        /\ last'.method = "webhook"
        /\ stateMgr
        /\ last'.task_id \in DOMAIN store
        /\ ~last'.raised)
       => LET t == last'.task_id
              merged == WebhookState(store[t], last'.result)
          IN  /\ resp'.error = "None"
              /\ resp'.result = store'[t].task
              /\ IsPrefix(merged.task.history, store'[t].task.history)
              /\ store'[t].task.status = merged.task.status]_vars


(***************************************************************************)
(* Properties of requests handled concurrently.                            *)
(***************************************************************************)
\* The messages a finished tasks/send of a client contributed: the user
\* message and the agent message of the handler's result.
Contributed(call) ==
    {call.message} \cup Range(AgentMessages(call.resp.result))

\* C32: once the tasks/send requests on a task id have all returned, however
\* they and the webhook results for that id were interleaved, the stored
\* task.history holds the user message and the agent message of every one of
\* them, and the messages of the last webhook result that was merged.
C32_NoLostUpdate ==
    (\A client \in Clients : inflight[client].pc # "called")
    => /\ \A client \in Clients :
             inflight[client].pc = "done"
             => Contributed(inflight[client])
                   \subseteq Range(store[inflight[client].task_id].task.history)
       /\ (last.method = "get_and_update_state_from_webhook" /\ ~last.raised)
             => Range(last.result.history \o ToolMessages(last.result.artifacts))
                   \subseteq Range(store[last.task_id].task.history)


\* C33: a tasks/cancel on a task id that has a record leaves the history,
\* the artifacts and the metadata of its task, its context history and its
\* push notification config as they were, and leaves the stream in flight
\* where it was: still running, with the frames it has emitted and the
\* chunks it has taken.
C33_CancelOnlyChangesStatus ==
    [][(/\ last' # last
        /\ last'.method = "tasks/cancel"
        /\ last'.task_id \in DOMAIN store)
       => LET t == last'.task_id
          IN  /\ t \in DOMAIN store'
              /\ store'[t].task.history = store[t].task.history
              /\ store'[t].task.artifacts = store[t].task.artifacts
              /\ store'[t].task.metadata = store[t].task.metadata
              /\ store'[t].context_history = store[t].context_history
              /\ store'[t].push_notification_config = store[t].push_notification_config
              /\ UNCHANGED streamVars]_vars

\* A stream on t1 emitted a result frame after a tasks/cancel on t1, which
\* had a record, was handled.
C33_Witness ==
    /\ last.method = "tasks/cancel"
    /\ last.task_id = "t1"
    /\ "t1" \in DOMAIN store
    /\ sreq.id = "t1"
    /\ last.emitted >= 1
    /\ Len(frames) > last.emitted
    /\ frames[Len(frames)].kind = "result"

\* The task ids a step is addressed to: that of the tasks/send a client began
\* or finished, that of the stream that started or took a chunk, or that of
\* the webhook result or the unary request handled.
AddressedTo ==
    IF inflight' # inflight
    THEN {inflight'[client].task_id : client \in {c \in Clients : inflight'[c] # inflight[c]}}
    ELSE IF <<spc, sreq, yielded>>' # <<spc, sreq, yielded>>
    THEN {sreq'.id}
    ELSE IF webhooks' # webhooks \/ last' # last
    THEN {last'.task_id}
    ELSE {}

\* C34: a step addressed to a task id changes the record of no other task
\* id and creates no record for another task id.
C34_TasksIndependent ==
    [][/\ \A b \in DOMAIN store \ AddressedTo :
             b \in DOMAIN store' /\ store'[b] = store[b]
       /\ (DOMAIN store') \ (DOMAIN store) \subseteq AddressedTo]_vars

\* Both task ids have a record, the stream on t1 has emitted a frame and the
\* tasks/send on t2 has returned after it.
C34_Witness ==
    /\ DOMAIN store = {"t1", "t2"}
    /\ inflight["c1"].pc = "done"
    /\ Len(frames) >= 1
    /\ spc = "running"
    /\ store["t1"].task.history # <<>>
    /\ store["t2"].task.history # <<>>


(***************************************************************************)
(* Properties of the stored record over a sequence of operations.          *)
(***************************************************************************)
\* C35: the task.history a task id has in the store before an operation is
\* a prefix of the one it has after it; for the events of a stream, the
\* history before the operation is the one stored when the request arrived.
C35_HistoryAppendOnly ==
    [][\A t \in DOMAIN store :
          /\ t \in DOMAIN store'
          /\ IsPrefix(IF spc = "running" /\ sreq.id = t
                      THEN sreq.before
                      ELSE store[t].task.history,
                      store'[t].task.history)]_vars

\* A tasks/send, a webhook result and a stream that emitted an artifact have
\* all acted on t1, whose history holds their five messages or more.
C35_Witness ==
    /\ "t1" \in DOMAIN store
    /\ sent["t1"].n >= 1
    /\ webhooks >= 1
    /\ spc = "done"
    /\ \E k \in 1..Len(frames) : frames[k].kind = "result"
    /\ Len(store["t1"].task.history) >= 5


\* The agent messages of the first n chunks: one per A2AStreamResponse, with
\* the text of its content as its only part.
RECURSIVE ChunkMessages(_)
ChunkMessages(n) ==
    IF n = 0 THEN <<>>
    ELSE IF yielded[n].kind = "A2AStreamResponse"
         THEN Append(ChunkMessages(n - 1),
                     [role |-> "agent",
                      parts |-> <<[type |-> "text", text |-> yielded[n].content.text]>>])
         ELSE ChunkMessages(n - 1)

StatusPositions == {k \in 1..Len(yielded) : yielded[k].kind = "A2AStatus"}

IsStoredSendStep ==
    /\ sent' # sent
    /\ stateMgr
    /\ last'.method = "tasks/send"
    /\ resp'.kind = "result"

C39_PushConfigPreserved ==
    [][\A t \in DOMAIN store :
          ~(/\ sent' # sent
            /\ last'.method = "tasks/send"
            /\ last'.task_id = t
            /\ last'.pushNotification # PushNone)
          => /\ t \in DOMAIN store'
             /\ store'[t].push_notification_config = store[t].push_notification_config]_vars


\* The task a tasks/send finds under task_id before get_or_create_and_update_state
\* adds the incoming message: the stored one, or the empty one it initializes.
TaskBeforeSend(task_id) ==
    IF task_id \in DOMAIN store
    THEN store[task_id].task
    ELSE InitializeEmptyState(task_id, PushNone).task

\* C40: with a state manager, a tasks/send whose handler raises answers the
\* error and leaves a stored record whose history is the one before the
\* request followed by the incoming message, with no agent message, and whose
\* status and artifacts are those from before the handler was called.
C40_RaisingSendNotRolledBack ==
    [][(/\ sent' # sent
        /\ last'.method = "tasks/send"
        /\ stateMgr
        /\ last'.called
        /\ last'.raw_result.kind = "raise")
       => LET t == last'.task_id
              before == TaskBeforeSend(t)
          IN  /\ resp'.kind = "error"
              /\ resp'.id = last'.id
              /\ t \in DOMAIN store'
              /\ store'[t].task.history = Append(before.history, last'.message)
              /\ store'[t].task.status = before.status
              /\ store'[t].task.artifacts = before.artifacts]_vars

\* A handler raised on a task id whose record held a completed task with an
\* artifact and an agent message from an earlier tasks/send.
C40_Witness ==
    /\ last.method = "tasks/send"
    /\ stateMgr
    /\ last.called
    /\ last.raw_result.kind = "raise"
    /\ ~last.fresh
    /\ resp.kind = "error"
    /\ last.task_id \in DOMAIN store
    /\ store[last.task_id].task.status = "completed"
    /\ store[last.task_id].task.artifacts # <<>>
    /\ Len(store[last.task_id].task.history) >= 3

====
